---- MODULE Spec2Model ----
(***************************************************************************)
(* A model of the task registry of src/services: the in-memory TaskStore,  *)
(* its snapshot file written through "<storage>.tmp" and os.replace, and   *)
(* the JSONL action log.  Callers are threads of the ThreadingHTTPServer;  *)
(* every step between two accesses to shared state (the engine lock, the   *)
(* log lock, the files) is one action.                                     *)
(***************************************************************************)
EXTENDS Integers, Sequences, FiniteSets, TLC

\* ------------------------------------------------------------ bounds
MaxCalls == 2
MaxTaskId == 2
MaxCrashes == 1
MaxReuse == 1
MaxItems == 2
MaxLines == 5
MaxLimit == 3

\* ThreadingHTTPServer runs every request in a thread of its own: thread k
\* serves the k-th request to arrive and makes one call on the store.
Threads == 1..MaxCalls
NoThread == 0
TaskIds == 1..MaxTaskId

\* ------------------------------------------------------------ values
\* A Python value handed in as title or priority: a string (a sequence of
\* symbols, " " being a whitespace character and every other symbol a run of
\* non-whitespace characters), a non-string JSON value, or None.
Str(s) == [kind |-> "str", s |-> s]
NonStr == [kind |-> "int", s |-> <<>>]
NoneVal == [kind |-> "none", s |-> <<>>]

\* A lone surrogate code point, which a JSON request body can spell as an
\* escape and json.loads accepts, and which UTF-8 cannot encode.
Surrogate == "U+D800"

\* The (title, priority) pairs callers hand to create_task and update_task.
CreateInputs ==
    { <<Str(<<" ", "b">>), Str(<<"high", " ">>)>>,
      <<Str(<<" ">>), Str(<<"high", " ">>)>>,
      <<Str(<<>>), Str(<<"normal">>)>>,
      <<NonStr, Str(<<"low">>)>>,
      <<Str(<<" ", "b">>), Str(<<"urgent">>)>>,
      <<Str(<<" ", "b">>), NonStr>>,
      <<Str(<<Surrogate>>), Str(<<"low">>)>> }

UpdateInputs ==
    { <<NoneVal, Str(<<"high", " ">>)>>,
      <<Str(<<" ", "b">>), Str(<<"high", " ">>)>>,
      <<Str(<<" ", "b">>), Str(<<"urgent">>)>>,
      <<Str(<<" ">>), Str(<<"high", " ">>)>>,
      <<NonStr, NoneVal>>,
      <<NoneVal, NonStr>> }

ALLOWED_PRIORITIES == {<<"low">>, <<"normal">>, <<"high">>}

RECURSIVE lstrip(_)
lstrip(s) == IF s # <<>> /\ Head(s) = " " THEN lstrip(Tail(s)) ELSE s

RECURSIVE rstrip(_)
rstrip(s) == IF s # <<>> /\ s[Len(s)] = " " THEN rstrip(SubSeq(s, 1, Len(s) - 1)) ELSE s

strip(s) == rstrip(lstrip(s))

\* ------------------------------------------------------------ tasks
Task(id, title, priority, is_done) ==
    [id |-> id, title |-> title, priority |-> priority, is_done |-> is_done]

to_dict(t) == [title |-> t.title, id |-> t.id, priority |-> t.priority, isDone |-> t.is_done]

RECURSIVE SortById(_)
SortById(V) ==
    IF V = {} THEN <<>>
    ELSE LET m == CHOOSE x \in V : \A y \in V : x.id <= y.id
         IN  <<m>> \o SortById(V \ {m})

Values(ts) == {ts[k] : k \in DOMAIN ts}

SnapshotReversed(ts) ==
    LET sorted == SortById(Values(ts))
    IN  [i \in 1..Len(sorted) |-> to_dict(sorted[Len(sorted) + 1 - i])]

\* [t.to_dict() for t in sorted(self._tasks.values(), key=lambda x: x.id)]
Snapshot(ts) ==
    LET sorted == SortById(Values(ts))
    IN  [i \in 1..Len(sorted) |-> to_dict(sorted[i])]

EmptyTasks == [k \in {} |-> Task(0, <<>>, <<>>, FALSE)]

\* self._tasks[task_id] = task
Put(ts, k, t) == [x \in DOMAIN ts \cup {k} |-> IF x = k THEN t ELSE ts[x]]

PopKept(ts, k) == ts

\* self._tasks.pop(task_id)
Pop(ts, k) == [x \in DOMAIN ts \ {k} |-> ts[x]]

\* ------------------------------------------------------------ JSON
\* A value json.loads can hand to Task.from_dict as a field of a record: an
\* int, a float (n its integer part, s its text), a float too large for a
\* double (inf), a string, a bool, null, a list or a dict (s their text), or
\* no value at all (the key is missing).
JV(k, n, s, b) == [k |-> k, n |-> n, s |-> s, b |-> b]
JInt(n) == JV("int", n, <<>>, FALSE)
JFloat(n, text) == JV("float", n, <<text>>, FALSE)
JInf == JV("inf", 0, <<"inf">>, FALSE)
JStr(s) == JV("str", 0, s, FALSE)
JBool(b) == JV("bool", 0, <<>>, b)
JNull == JV("null", 0, <<>>, FALSE)
JList == JV("list", 0, <<"[]">>, FALSE)
JDict == JV("dict", 0, <<"{}">>, FALSE)
Missing == JV("missing", 0, <<>>, FALSE)

\* An element of the parsed array: a JSON object with its four fields, or
\* something that is not an object.
JObject(id, title, priority, isDone) ==
    [kind |-> "object", id |-> id, title |-> title, priority |-> priority, isDone |-> isDone]
NotObject == [kind |-> "other", id |-> Missing, title |-> Missing, priority |-> Missing,
              isDone |-> Missing]

\* The integers a string can spell.
Numerals == -2..3

\* int(v): an int as it is, a bool as 0 or 1, a float cut to its integer
\* part, a string that spells an integer (whitespace around it allowed) as
\* that integer; OverflowError for inf, ValueError for another string,
\* TypeError for null, a list or a dict.
py_int(v) ==
    IF v.k \in {"int", "float"} THEN [err |-> "none", n |-> v.n]
    ELSE IF v.k = "bool" THEN [err |-> "none", n |-> IF v.b THEN 1 ELSE 0]
    ELSE IF v.k = "inf" THEN [err |-> "OverflowError", n |-> 0]
    ELSE IF v.k = "str"
         THEN IF \E n \in Numerals : strip(v.s) = <<ToString(n)>>
              THEN [err |-> "none", n |-> CHOOSE n \in Numerals : strip(v.s) = <<ToString(n)>>]
              ELSE [err |-> "ValueError", n |-> 0]
    ELSE [err |-> "TypeError", n |-> 0]

\* str(v): a string as it is, everything else as its text.
py_str(v) ==
    IF v.k = "str" THEN v.s
    ELSE IF v.k = "int" THEN <<ToString(v.n)>>
    ELSE IF v.k = "bool" THEN IF v.b THEN <<"True">> ELSE <<"False">>
    ELSE IF v.k = "null" THEN <<"None">>
    ELSE v.s

\* bool(v): the truth value of v.
py_bool(v) ==
    IF v.k = "bool" THEN v.b
    ELSE IF v.k \in {"int", "float"} THEN v.n # 0
    ELSE IF v.k = "str" THEN v.s # <<>>
    ELSE IF v.k = "inf" THEN TRUE
    ELSE FALSE

\* Task.from_dict: the four fields are read and converted in the order id,
\* title, priority, isDone; a missing key raises KeyError where it is read.
from_dict(d) ==
    LET id == py_int(d.id)
        bad(e) == [err |-> e, task |-> Task(0, <<>>, <<>>, FALSE)]
    IN  IF d.id.k = "missing" THEN bad("KeyError")
        ELSE IF id.err # "none" THEN bad(id.err)
        ELSE IF d.title.k = "missing" \/ d.priority.k = "missing" \/ d.isDone.k = "missing"
             THEN bad("KeyError")
        ELSE [err |-> "none",
              task |-> Task(id.n, py_str(d.title), py_str(d.priority), py_bool(d.isDone))]

\* What json.loads reads back from the text json.dump wrote for the dict of
\* a task.
JsonOf(d) == JObject(JInt(d.id), JStr(d.title), JStr(d.priority), JBool(d.isDone))

JsonArray(l) == [i \in 1..Len(l) |-> JsonOf(l[i])]

\* ------------------------------------------------------------ files
\* The content of a file: absent (no such path), empty (created or truncated,
\* nothing written), partial (a proper prefix of the JSON text of data),
\* complete (the whole JSON text of data), or garbled (bytes of more than one
\* writer, or a hole left by a truncation under a writer).
Absent == [st |-> "absent", data |-> <<>>]
Empty == [st |-> "empty", data |-> <<>>]
Partial(d) == [st |-> "partial", data |-> d]
Complete(d) == [st |-> "complete", data |-> d]
Garbled == [st |-> "garbled", data |-> <<>>]

\* Files no save() wrote: whitespace only (blank), one open() fails on
\* (unreadable), bytes that are not UTF-8 (undecodable), JSON text of a
\* value that is not an array (scalar), JSON text of the array items.
Blank == [st |-> "blank", data |-> <<>>]
Unreadable == [st |-> "unreadable", data |-> <<>>]
Undecodable == [st |-> "undecodable", data |-> <<>>]
Scalar == [st |-> "scalar", data |-> <<>>]
ArrayFile(items) == [st |-> "array", data |-> items]

\* The exceptions the loop of load catches around Task.from_dict.
LoadSkips == {"KeyError", "ValueError", "TypeError"}

\* The loop of load over the parsed array, lines 57-66: an element that is
\* not an object and a record from_dict refuses with a caught exception are
\* skipped, another exception leaves load; tasks[t.id] = t, max_id tracked.
RECURSIVE LoadItems(_, _, _)
LoadItems(d, ts, max_id) ==
    IF d = <<>> THEN [tasks |-> ts, next_id |-> max_id + 1, raised |-> "none"]
    ELSE IF Head(d).kind # "object" THEN LoadItems(Tail(d), ts, max_id)
    ELSE LET r == from_dict(Head(d))
             t == r.task
         IN  IF r.err \in LoadSkips THEN LoadItems(Tail(d), ts, max_id)
             ELSE IF r.err # "none"
                  THEN [tasks |-> EmptyTasks, next_id |-> 1, raised |-> r.err]
             ELSE LoadItems(Tail(d), Put(ts, t.id, t),
                            IF t.id > max_id THEN t.id ELSE max_id)

\* load() on a freshly constructed store (empty collection, counter 1):
\* lines 39-53 return with the store as constructed for a file that is
\* absent, cannot be opened, is empty after strip(), is no JSON text or is
\* the text of something else than an array; UnicodeDecodeError is not among
\* the exceptions caught at line 48.
Load(file) ==
    IF file.st = "complete" THEN LoadItems(JsonArray(file.data), EmptyTasks, 0)
    ELSE IF file.st = "array" THEN LoadItems(file.data, EmptyTasks, 0)
    ELSE IF file.st = "undecodable"
         THEN [tasks |-> EmptyTasks, next_id |-> 1, raised |-> "UnicodeDecodeError"]
    ELSE [tasks |-> EmptyTasks, next_id |-> 1, raised |-> "none"]

\* What a write of the JSON text of d leaves in a file holding c.  first is
\* TRUE when the writer has written nothing yet (it writes from offset 0),
\* FALSE when it already flushed a prefix; whole is TRUE when the write
\* reaches the end of the text.  Writing over the bytes of another writer
\* gives the whole text when it covers them and a mix when it does not.
WriteOutcomes(c, d, first, whole) ==
    IF c.st = "absent" THEN {c}
    ELSE IF c.st = "empty" /\ first THEN {IF whole THEN Complete(d) ELSE Partial(d)}
    ELSE IF c.st = "empty" THEN {Garbled}
    ELSE IF c.st \in {"partial", "complete"} /\ c.data = d
         THEN {IF whole \/ c.st = "complete" THEN Complete(d) ELSE c}
    ELSE IF whole THEN {Complete(d), Garbled}
    ELSE {Garbled}

\* ------------------------------------------------------------ state
VARIABLES
    tasks,      \* TaskStore._tasks
    next_id,    \* TaskStore._next_id
    lock,       \* TaskStore._lock: the thread holding it, or NoThread
    loglock,    \* ActionLogger._lock
    snapfile,   \* the file at storage_path
    tmpfile,    \* the file at storage_path + ".tmp"
    logfile,    \* the lines of the action log
    pc,         \* where each thread is
    call,       \* the operation a thread runs and its arguments
    loc,        \* its locals: task_id, stripped title and priority, status
    data,       \* the snapshot save() took for it
    fd,         \* where the file it has open for writing is now
    result,     \* what its last call returned or raised
    created,    \* history: IDs given out by create, in lock order
    logged,     \* history: records the running call appended
    later,      \* history: another mutation of the same task committed since
    saved,      \* history: the running call's os.replace was done
    persisted,  \* history: the last save() that completed, what it wrote and of what
    nsnap,      \* history: snapshots taken so far
    boots,      \* history: restarts of the process after a crash
    hist,       \* history: what the calls of this process have done so far
    reused,     \* threads of ended requests taken again for new requests
    clock,      \* the time datetime.utcnow() returns next
    logmeta,    \* for each line of the log: its timestamp, and (history) the
                \* number of the commit it reports, 0 for a not_found record
    backups,    \* the backups directory: whether it is there, and its files, a
                \* file name being the second its timestamp shows; and (job)
                \* how far a backup request next to the requests on the store is
    second      \* the UTC second the last perform_backup read from the clock

vars == <<tasks, next_id, lock, loglock, snapfile, tmpfile, logfile, pc, call,
          loc, data, fd, result, created, logged, later, saved, persisted, nsnap, boots,
          hist, reused, clock, logmeta, backups, second>>

NoJob == [st |-> "none", name |-> 0]
NoBackups == [dir |-> FALSE, files |-> <<>>, job |-> NoJob]
NoCall == [op |-> "none", task_id |-> 0, title |-> NoneVal, priority |-> NoneVal]
NoTask == Task(0, <<>>, <<>>, FALSE)
NoLoc == [task_id |-> 0, title |-> NoneVal, priority |-> NoneVal, status |-> "none",
          was_done |-> FALSE, obj |-> NoTask, seq |-> 0, snap |-> EmptyTasks,
          commit |-> 0, ts |-> 0]
NoResult == [kind |-> "none", val |-> <<>>]
Raised(e) == [kind |-> e, val |-> <<>>]
RetBool(b) == [kind |-> "bool", val |-> <<b>>]
RetTask(d) == [kind |-> "task", val |-> <<d>>]
RetList(l) == [kind |-> "list", val |-> l]
RetNone == [kind |-> "None", val |-> <<>>]

\* Nothing has happened yet in this process: no delete_task has returned
\* True (deleted), no create_task has returned a task (returned), no
\* update_task or delete_task has run on a task (changed) and no
\* complete_task has marked one (completed), and no locked section has
\* changed the collection (commits).
NoHist == [deleted |-> {}, returned |-> {}, changed |-> {}, completed |-> {}, commits |-> 0]

\* One record of the action log (timestamp, origin and details left out).
ActionRecord(action, task_id, status) ==
    [action |-> action, task_id |-> task_id, status |-> status]

\* A snapshot file left by an earlier run of the server.
OldSnapshot == Complete(<<to_dict(Task(1, <<"a">>, <<"low">>, FALSE))>>)

\* main(): store = TaskStore(args.storage, logger); store.load(), the
\* snapshot file being one of files.
InitFrom(files) ==
    \E f \in files :
        /\ snapfile = f
        /\ tasks = Load(f).tasks
        /\ next_id = Load(f).next_id
        /\ persisted = [file |-> f, tasks |-> Load(f).tasks, seq |-> 0]
        /\ nsnap = 0
        /\ boots = 0
        /\ hist = NoHist
        /\ reused = 0
        /\ clock = 0
        /\ logmeta = <<>>
        /\ backups = NoBackups
        /\ second = 0
        /\ lock = NoThread
        /\ loglock = NoThread
        /\ tmpfile = Absent
        /\ logfile = <<>>
        /\ pc = [t \in Threads |-> "new"]
        /\ call = [t \in Threads |-> NoCall]
        /\ loc = [t \in Threads |-> NoLoc]
        /\ data = [t \in Threads |-> <<>>]
        /\ fd = [t \in Threads |-> "none"]
        /\ result = [t \in Threads |-> NoResult]
        /\ created = <<>>
        /\ logged = [t \in Threads |-> <<>>]
        /\ later = [t \in Threads |-> FALSE]
        /\ saved = [t \in Threads |-> FALSE]

\* ------------------------------------------------------------ calls
\* A caller starts a call.
Begin(t, c) ==
    /\ pc[t] = "new"
    /\ \A u \in Threads : u < t => pc[u] # "new"
    /\ call' = [call EXCEPT ![t] = c]
    /\ UNCHANGED <<logged, saved>>

\* The threads whose committed mutation of task id is still in flight.
InFlightOn(id) ==
    {u \in Threads : pc[u] \in {"save_snap", "save_open", "save_write", "save_close",
                                "save_replace", "log", "log_write", "create_ret", "ret"}
                     /\ loc[u].status = "success" /\ loc[u].task_id = id}

CreateArgsOKAnyPriority(title, priority) ==
    /\ title.kind = "str"
    /\ priority.kind = "str"
    /\ strip(title.s) # <<>>

\* create_task, lines 104-115: the checks made before the lock is taken.
CreateArgsOK(title, priority) ==
    /\ title.kind = "str"
    /\ priority.kind = "str"
    /\ strip(title.s) # <<>>
    /\ strip(priority.s) \in ALLOWED_PRIORITIES

AllocIdBySize(n, ts) == Cardinality(DOMAIN ts) + 1

\* task_id = self._next_id
AllocId(n, ts) == n

NextIdAfterStale(n) == n

\* self._next_id += 1
NextIdAfter(n) == n + 1

\* create_task, lines 104-115 with bad arguments: ValueError, nothing touched.
CreateRejected(t, title, priority) ==
    /\ Begin(t, [op |-> "create", task_id |-> 0, title |-> title, priority |-> priority])
    /\ ~CreateArgsOK(title, priority)
    /\ pc' = [pc EXCEPT ![t] = "ret"]
    /\ loc' = [loc EXCEPT ![t] = NoLoc]
    /\ result' = [result EXCEPT ![t] = Raised("ValueError")]
    /\ UNCHANGED <<tasks, next_id, lock, loglock, snapfile, tmpfile, logfile, data, fd,
                   created, later, persisted, nsnap, boots, hist, reused, clock, logmeta,
                   backups, second>>

\* create_task, lines 104-121 with good arguments: the arguments are
\* stripped and the locked section gives the task its ID and stores it.
CreateLocked(t, title, priority) ==
    /\ Begin(t, [op |-> "create", task_id |-> 0, title |-> title, priority |-> priority])
    /\ CreateArgsOK(title, priority)
    /\ lock = NoThread
    /\ LET task_id == AllocId(next_id, tasks)
       IN  /\ next_id' = NextIdAfter(next_id)
           /\ tasks' = Put(tasks, task_id, Task(task_id, strip(title.s), strip(priority.s), FALSE))
           /\ loc' = [loc EXCEPT ![t] = [NoLoc EXCEPT !.task_id = task_id,
                                                      !.status = "success",
                                                      !.title = Str(strip(title.s)),
                                                      !.priority = Str(strip(priority.s)),
                                                      !.commit = hist.commits + 1]]
           /\ created' = Append(created, task_id)
    /\ hist' = [hist EXCEPT !.commits = @ + 1]
    /\ pc' = [pc EXCEPT ![t] = "save_snap"]
    /\ UNCHANGED <<result, lock, loglock, snapfile, tmpfile, logfile, data, fd, later,
                   persisted, nsnap, boots, reused, clock, logmeta, backups, second>>

\* update_task, complete_task and delete_task make no check before the lock.
MutCall(t, op, task_id, title, priority) ==
    /\ Begin(t, [op |-> op, task_id |-> task_id, title |-> title, priority |-> priority])
    /\ lock = NoThread

\* The not-found branch of update_task, complete_task and delete_task:
\* self._log(...) is called inside "with self._lock".
NotFound(t, op, task_id, title, priority) ==
    /\ MutCall(t, op, task_id, title, priority)
    /\ task_id \notin DOMAIN tasks
    /\ lock' = t
    /\ loc' = [loc EXCEPT ![t] = [NoLoc EXCEPT !.task_id = task_id, !.status = "not_found"]]
    /\ pc' = [pc EXCEPT ![t] = "log"]
    /\ UNCHANGED <<tasks, next_id, loglock, snapfile, tmpfile, logfile, data, fd, result,
                   created, later, persisted, nsnap, boots, hist, reused, clock, logmeta,
                   backups, second>>

UpdateTitleUntrimmed(task, title) ==
    IF title.kind = "none" THEN [ok |-> TRUE, task |-> task, v |-> title]
    ELSE IF title.kind # "str" \/ strip(title.s) = <<>>
         THEN [ok |-> FALSE, task |-> task, v |-> title]
    ELSE [ok |-> TRUE, task |-> [task EXCEPT !.title = title.s], v |-> Str(title.s)]

\* update_task, lines 137-143: the title, when given, is checked and stored.
UpdateTitle(task, title) ==
    IF title.kind = "none" THEN [ok |-> TRUE, task |-> task, v |-> title]
    ELSE IF title.kind # "str" \/ strip(title.s) = <<>>
         THEN [ok |-> FALSE, task |-> task, v |-> title]
    ELSE [ok |-> TRUE, task |-> [task EXCEPT !.title = strip(title.s)], v |-> Str(strip(title.s))]

\* update_task, lines 145-151: the priority, when given, is checked and stored.
UpdatePriority(task, priority) ==
    IF priority.kind = "none" THEN [ok |-> TRUE, task |-> task, v |-> priority]
    ELSE IF priority.kind # "str" \/ strip(priority.s) \notin ALLOWED_PRIORITIES
         THEN [ok |-> FALSE, task |-> task, v |-> priority]
    ELSE [ok |-> TRUE, task |-> [task EXCEPT !.priority = strip(priority.s)],
          v |-> Str(strip(priority.s))]

\* update_task, lines 137-151 in order: the title is stored before the
\* priority is looked at.
UpdateFields(task, title, priority) ==
    LET r1 == UpdateTitle(task, title)
        r2 == UpdatePriority(r1.task, priority)
    IN  IF ~r1.ok THEN [ok |-> FALSE, task |-> r1.task, title |-> r1.v, priority |-> priority]
        ELSE [ok |-> r2.ok, task |-> r2.task, title |-> r1.v, priority |-> r2.v]

\* A mutation of task id committed: the calls still in flight on it are older.
Overtaken(t, id) ==
    later' = [u \in Threads |-> IF u = t THEN FALSE
                                ELSE IF u \in InFlightOn(id) THEN TRUE ELSE later[u]]

\* update_task, lines 131-151, the task being there: a ValueError leaves the
\* with block and ends the call.
UpdateLocked(t, task_id, title, priority) ==
    /\ MutCall(t, "update", task_id, title, priority)
    /\ task_id \in DOMAIN tasks
    /\ LET r == UpdateFields(tasks[task_id], title, priority)
       IN  /\ tasks' = [tasks EXCEPT ![task_id] = r.task]
           /\ IF r.ok
              THEN /\ pc' = [pc EXCEPT ![t] = "save_snap"]
                   /\ loc' = [loc EXCEPT ![t] = [NoLoc EXCEPT !.task_id = task_id,
                                                              !.status = "success",
                                                              !.title = r.title,
                                                              !.priority = r.priority,
                                                              !.commit = hist.commits + 1]]
                   /\ result' = result
              ELSE /\ pc' = [pc EXCEPT ![t] = "ret"]
                   /\ loc' = [loc EXCEPT ![t] = [NoLoc EXCEPT !.task_id = task_id]]
                   /\ result' = [result EXCEPT ![t] = Raised("ValueError")]
    /\ Overtaken(t, task_id)
    /\ hist' = [hist EXCEPT !.changed = @ \cup {task_id},
                            !.commits = IF UpdateFields(tasks[task_id], title, priority).ok
                                        THEN @ + 1 ELSE @]
    /\ UNCHANGED <<next_id, lock, loglock, snapfile, tmpfile, logfile, data, fd,
                   created, persisted, nsnap, boots, reused, clock, logmeta, backups, second>>

MarkDoneToggled(task) == [task EXCEPT !.is_done = ~@]

\* task.is_done = True
MarkDone(task) == [task EXCEPT !.is_done = TRUE]

\* complete_task, lines 158-163, the task being there.
CompleteLocked(t, task_id) ==
    /\ MutCall(t, "complete", task_id, NoneVal, NoneVal)
    /\ task_id \in DOMAIN tasks
    /\ tasks' = [tasks EXCEPT ![task_id] = MarkDone(@)]
    /\ loc' = [loc EXCEPT ![t] = [NoLoc EXCEPT !.task_id = task_id, !.status = "success",
                                               !.was_done = tasks[task_id].is_done,
                                               !.obj = tasks[task_id],
                                               !.commit = hist.commits + 1]]
    /\ pc' = [pc EXCEPT ![t] = "save_snap"]
    /\ Overtaken(t, task_id)
    /\ hist' = [hist EXCEPT !.completed = @ \cup {task_id}, !.commits = @ + 1]
    /\ UNCHANGED <<next_id, lock, loglock, snapfile, tmpfile, logfile, data, fd, result,
                   created, persisted, nsnap, boots, reused, clock, logmeta, backups, second>>

\* delete_task, lines 170-174, the task being there.  A create_task that has
\* not returned yet keeps its reference to the Task object.
DeleteLocked(t, task_id) ==
    /\ MutCall(t, "delete", task_id, NoneVal, NoneVal)
    /\ task_id \in DOMAIN tasks
    /\ tasks' = Pop(tasks, task_id)
    /\ loc' = [u \in Threads |->
                 IF u = t THEN [NoLoc EXCEPT !.task_id = task_id, !.status = "success",
                                             !.commit = hist.commits + 1]
                 ELSE IF call[u].op = "create" /\ u \in InFlightOn(task_id)
                      THEN [loc[u] EXCEPT !.obj = tasks[task_id]]
                 ELSE loc[u]]
    /\ pc' = [pc EXCEPT ![t] = "save_snap"]
    /\ Overtaken(t, task_id)
    /\ hist' = [hist EXCEPT !.changed = @ \cup {task_id}, !.commits = @ + 1]
    /\ UNCHANGED <<next_id, lock, loglock, snapfile, tmpfile, logfile, data, fd, result,
                   created, persisted, nsnap, boots, reused, clock, logmeta, backups, second>>

\* ------------------------------------------------------------ save
\* save, lines 77-78: the snapshot is taken under the lock.
SaveSnapshot(t) ==
    /\ pc[t] = "save_snap"
    /\ lock = NoThread
    /\ data' = [data EXCEPT ![t] = Snapshot(tasks)]
    /\ nsnap' = nsnap + 1
    /\ loc' = [loc EXCEPT ![t].seq = nsnap + 1, ![t].snap = tasks]
    /\ pc' = [pc EXCEPT ![t] = "save_open"]
    /\ UNCHANGED <<tasks, next_id, lock, loglock, snapfile, tmpfile, logfile, call,
                   fd, result, created, logged, later, saved, persisted, boots,
                   hist, reused, clock, logmeta,
                   backups, second>>

WritePathInPlace == "snap"

\* The path save writes to: tmp_path = self._storage_path + ".tmp".
WritePath == "tmp"

\* save, line 81: open(tmp_path, "w") creates the file or truncates it.
SaveOpen(t) ==
    /\ pc[t] = "save_open"
    /\ IF WritePath = "tmp"
       THEN tmpfile' = Empty /\ snapfile' = snapfile
       ELSE snapfile' = Empty /\ tmpfile' = tmpfile
    /\ fd' = [fd EXCEPT ![t] = WritePath]
    /\ pc' = [pc EXCEPT ![t] = "save_write"]
    /\ UNCHANGED <<tasks, next_id, lock, loglock, logfile, call, loc, data, result,
                   created, logged, later, saved, persisted, nsnap, boots,
                   hist, reused, clock, logmeta,
                   backups, second>>

\* A write through the open file reaches the file it was opened on, wherever
\* a rename has moved it since.
WriteThrough(t, first, whole) ==
    /\ tmpfile' \in IF fd[t] = "tmp" THEN WriteOutcomes(tmpfile, data[t], first, whole)
                    ELSE {tmpfile}
    /\ snapfile' \in IF fd[t] = "snap" THEN WriteOutcomes(snapfile, data[t], first, whole)
                     ELSE {snapfile}

\* The text of the snapshot d can be written to a file opened with
\* encoding="utf-8": json.dump(..., ensure_ascii=False) writes the characters
\* of the titles as they are.
Encodable(d) ==
    \A i \in 1..Len(d) : \A j \in 1..Len(d[i].title) : d[i].title[j] # Surrogate

AfterSaveErrorLogs == "log"

\* Where a call goes on when its save raises: create_task (line 123),
\* update_task (153), complete_task (165) and delete_task (176) call
\* self.save() outside any try, so the exception ends the call.
AfterSaveError == "ret"

\* save, line 82: f.write raises UnicodeEncodeError at a character UTF-8
\* cannot encode; the with block closes f with what was written before it,
\* os.replace is not reached and the exception ends the call.
SaveRaises(t) ==
    /\ pc[t] = "save_write"
    /\ ~Encodable(data[t])
    /\ WriteThrough(t, TRUE, FALSE)
    /\ fd' = [fd EXCEPT ![t] = "none"]
    /\ result' = [result EXCEPT ![t] = Raised("UnicodeEncodeError")]
    /\ pc' = [pc EXCEPT ![t] = AfterSaveError]
    /\ UNCHANGED <<tasks, next_id, lock, loglock, logfile, call, loc, data,
                   created, logged, later, saved, persisted, nsnap, boots,
                   hist, reused, clock, logmeta,
                   backups, second>>

\* save, line 82: json.dump fills the buffer of f; a long text is flushed to
\* the file in part before the file is closed.
SaveFlush(t) ==
    /\ pc[t] = "save_write"
    /\ Encodable(data[t])
    /\ data[t] # <<>>
    /\ WriteThrough(t, TRUE, FALSE)
    /\ pc' = [pc EXCEPT ![t] = "save_close"]
    /\ UNCHANGED <<tasks, next_id, lock, loglock, logfile, call, loc, data, fd, result,
                   created, logged, later, saved, persisted, nsnap, boots,
                   hist, reused, clock, logmeta,
                   backups, second>>

\* save, lines 81-82: leaving the with block flushes the rest and closes f.
SaveClose(t) ==
    /\ pc[t] \in {"save_write", "save_close"}
    /\ Encodable(data[t])
    /\ WriteThrough(t, pc[t] = "save_write", TRUE)
    /\ fd' = [fd EXCEPT ![t] = "none"]
    /\ pc' = [pc EXCEPT ![t] = "save_replace"]
    /\ UNCHANGED <<tasks, next_id, lock, loglock, logfile, call, loc, data, result,
                   created, logged, later, saved, persisted, nsnap, boots,
                   hist, reused, clock, logmeta,
                   backups, second>>

AfterSaveWithoutLog(op) ==
    IF op \in {"create", "legacy_create"} THEN "create_ret" ELSE "ret"

\* What follows self.save() in the caller: the TaskStore of src/services
\* logs the action; the TaskStore of src/storage.py, which has no logger,
\* goes to its return statement.
AfterSave(op) ==
    IF op = "legacy_create" THEN "create_ret"
    ELSE IF op = "legacy_complete" THEN "ret"
    ELSE "log"

\* save, line 84: os.replace(tmp_path, self._storage_path).  The rename takes
\* the open files of other writers with it; without a file at tmp_path it
\* raises FileNotFoundError, which ends the call.
SaveReplace(t) ==
    /\ pc[t] = "save_replace"
    /\ IF WritePath = "tmp" /\ tmpfile.st = "absent"
       THEN /\ pc' = [pc EXCEPT ![t] = AfterSaveError]
            /\ result' = [result EXCEPT ![t] = Raised("FileNotFoundError")]
            /\ UNCHANGED <<snapfile, tmpfile, fd, saved, persisted>>
       ELSE /\ snapfile' = IF WritePath = "tmp" THEN tmpfile ELSE snapfile
            /\ tmpfile' = IF WritePath = "tmp" THEN Absent ELSE tmpfile
            /\ fd' = [u \in Threads |->
                        IF WritePath # "tmp" THEN fd[u]
                        ELSE IF fd[u] = "tmp" THEN "snap"
                        ELSE IF fd[u] = "snap" THEN "unlinked"
                        ELSE fd[u]]
            /\ pc' = [pc EXCEPT ![t] = AfterSave(call[t].op)]
            /\ saved' = [saved EXCEPT ![t] = TRUE]
            /\ persisted' = [file |-> Complete(data[t]), tasks |-> loc[t].snap,
                             seq |-> loc[t].seq]
            /\ result' = IF call[t].op = "legacy_complete"
                          THEN [result EXCEPT ![t] = RetBool(TRUE)]
                          ELSE result
    /\ UNCHANGED <<tasks, next_id, lock, loglock, logfile, call, loc, data,
                   created, logged, later, nsnap, boots, hist, reused, clock, logmeta,
                   backups, second>>

\* ------------------------------------------------------------ action log
LogStatusSuccess(status) == "success"

\* The status _log is called with: "not_found" in the not-found branch,
\* "success" after save.
LogStatus(status) == status

ReleaseNever(t) == lock

\* The end of "with self._lock" in the not-found branches (storage.py lines
\* 131-135, 158-162, 170-173), left by return or by an exception: the lock
\* is released if the caller holds it.
Release(t) == IF lock = t THEN NoThread ELSE lock

\* ActionLogger.log, lines 42-50: the record is built, with
\* datetime.utcnow() as its timestamp, before the log lock is asked for.
LogStamp(t) ==
    /\ pc[t] = "log"
    /\ loc' = [loc EXCEPT ![t].ts = clock]
    /\ clock' = clock + 1
    /\ pc' = [pc EXCEPT ![t] = "log_write"]
    /\ UNCHANGED <<tasks, next_id, lock, loglock, snapfile, tmpfile, logfile, call, data,
                   fd, result, created, logged, later, saved, persisted, nsnap, boots,
                   hist, reused, logmeta, backups, second>>

\* ActionLogger.log, lines 52-56: the record is appended as one line under
\* the log lock, which is taken and released within this step.  Then the
\* caller goes on: the not-found branch leaves "with self._lock" and returns
\* False, the others return True; create_task has its return statement left.
LogAppend(t) ==
    /\ pc[t] = "log_write"
    /\ loglock = NoThread
    /\ LET rec == ActionRecord(call[t].op, loc[t].task_id, LogStatus(loc[t].status))
       IN  /\ logfile' = Append(logfile, rec)
           /\ logged' = [logged EXCEPT ![t] = Append(@, rec)]
    /\ logmeta' = Append(logmeta, [ts |-> loc[t].ts, commit |-> loc[t].commit])
    /\ lock' = Release(t)
    /\ result' = [result EXCEPT ![t] =
                    IF loc[t].status = "not_found" THEN RetBool(FALSE)
                    ELSE IF call[t].op = "create" THEN NoResult
                    ELSE RetBool(TRUE)]
    /\ pc' = [pc EXCEPT ![t] = IF call[t].op = "create" THEN "create_ret" ELSE "ret"]
    /\ hist' = IF call[t].op = "delete" /\ loc[t].status = "success"
                THEN [hist EXCEPT !.deleted = @ \cup {loc[t].task_id}]
                ELSE hist
    /\ UNCHANGED <<tasks, next_id, loglock, snapfile, tmpfile, call, loc, data, fd,
                   created, later, saved, persisted, nsnap, boots, reused, clock,
                   backups, second>>

\* ------------------------------------------------------------ return
\* The Task object create_task holds: the one in the collection, or the one
\* a delete_task took out of it.
CreatedTask(t) ==
    IF loc[t].task_id \in DOMAIN tasks THEN tasks[loc[t].task_id] ELSE loc[t].obj

\* create_task, line 125: return task.to_dict(), read without the lock.
CreateReturn(t) ==
    /\ pc[t] = "create_ret"
    /\ result' = [result EXCEPT ![t] = RetTask(to_dict(CreatedTask(t)))]
    /\ pc' = [pc EXCEPT ![t] = "ret"]
    /\ hist' = [hist EXCEPT !.returned = @ \cup {to_dict(CreatedTask(t))}]
    /\ UNCHANGED <<tasks, next_id, lock, loglock, snapfile, tmpfile, logfile, call, loc,
                   data, fd, created, logged, later, saved, persisted, nsnap, boots,
                   reused, clock, logmeta,
                   backups, second>>

\* The call has ended and the caller has its result or its exception.
Return(t) ==
    /\ pc[t] = "ret"
    /\ pc' = [pc EXCEPT ![t] = "done"]
    /\ call' = [call EXCEPT ![t] = NoCall]
    /\ loc' = [loc EXCEPT ![t] = NoLoc]
    /\ data' = [data EXCEPT ![t] = <<>>]
    /\ result' = [result EXCEPT ![t] = NoResult]
    /\ logged' = [logged EXCEPT ![t] = <<>>]
    /\ later' = [later EXCEPT ![t] = FALSE]
    /\ saved' = [saved EXCEPT ![t] = FALSE]
    /\ UNCHANGED <<tasks, next_id, lock, loglock, snapfile, tmpfile, logfile, fd,
                   created, persisted, nsnap, boots, hist, reused, clock, logmeta,
                   backups, second>>

\* ------------------------------------------------------------ reads
\* list_tasks, lines 87-88.
ListTasks(t) ==
    /\ Begin(t, [NoCall EXCEPT !.op = "list"])
    /\ lock = NoThread
    /\ result' = [result EXCEPT ![t] = RetList(Snapshot(tasks))]
    /\ pc' = [pc EXCEPT ![t] = "ret"]
    /\ UNCHANGED <<tasks, next_id, lock, loglock, snapfile, tmpfile, logfile, loc, data,
                   fd, created, later, persisted, nsnap, boots, hist, reused, clock, logmeta,
                   backups, second>>

\* get_task, lines 91-93.
GetTask(t, task_id) ==
    /\ Begin(t, [NoCall EXCEPT !.op = "get", !.task_id = task_id])
    /\ lock = NoThread
    /\ result' = [result EXCEPT ![t] =
                    IF task_id \in DOMAIN tasks THEN RetTask(to_dict(tasks[task_id]))
                    ELSE RetNone]
    /\ pc' = [pc EXCEPT ![t] = "ret"]
    /\ UNCHANGED <<tasks, next_id, lock, loglock, snapfile, tmpfile, logfile, loc, data,
                   fd, created, later, persisted, nsnap, boots, hist, reused, clock, logmeta,
                   backups, second>>

\* ------------------------------------------------------------ specification
\* The steps of create_task, update_task, complete_task and delete_task.
MutationStep(t) ==
    \/ \E a \in CreateInputs : CreateRejected(t, a[1], a[2])
    \/ \E a \in CreateInputs : CreateLocked(t, a[1], a[2])
    \/ \E id \in TaskIds, a \in UpdateInputs : NotFound(t, "update", id, a[1], a[2])
    \/ \E id \in TaskIds, op \in {"complete", "delete"} : NotFound(t, op, id, NoneVal, NoneVal)
    \/ \E id \in TaskIds, a \in UpdateInputs : UpdateLocked(t, id, a[1], a[2])
    \/ \E id \in TaskIds : CompleteLocked(t, id)
    \/ \E id \in TaskIds : DeleteLocked(t, id)
    \/ SaveSnapshot(t)
    \/ SaveOpen(t)
    \/ SaveRaises(t)
    \/ SaveFlush(t)
    \/ SaveClose(t)
    \/ SaveReplace(t)
    \/ LogStamp(t)
    \/ LogAppend(t)
    \/ CreateReturn(t)

Step(t) ==
    \/ MutationStep(t)
    \/ Return(t)
    \/ ListTasks(t)
    \/ \E id \in TaskIds : GetTask(t, id)

Next == \E t \in Threads : Step(t)

\* The server starts on the snapshot of an earlier run.
Init == InitFrom({OldSnapshot})

Spec == Init /\ [][Next]_vars

\* ------------------------------------------------------------ crash and restart
\* No other thread is inside a call: t is the only writer.
Alone(t) == \A u \in Threads : u # t => pc[u] \in {"new", "done"}

\* The process dies and is started again: main() builds a new TaskStore and
\* load() reads the file at the snapshot path.  Memory, locks, threads and
\* open files are gone; the files stay as they were on disk.  Requests that
\* had not arrived yet are served by the new process.
CrashRestart ==
    /\ boots < MaxCrashes
    /\ boots' = boots + 1
    /\ tasks' = Load(snapfile).tasks
    /\ next_id' = Load(snapfile).next_id
    /\ lock' = NoThread
    /\ loglock' = NoThread
    /\ pc' = [t \in Threads |-> IF pc[t] = "new" THEN "new" ELSE "done"]
    /\ call' = [t \in Threads |-> NoCall]
    /\ loc' = [t \in Threads |-> NoLoc]
    /\ data' = [t \in Threads |-> <<>>]
    /\ fd' = [t \in Threads |-> "none"]
    /\ result' = [t \in Threads |-> NoResult]
    /\ created' = <<>>
    /\ logged' = [t \in Threads |-> <<>>]
    /\ later' = [t \in Threads |-> FALSE]
    /\ saved' = [t \in Threads |-> FALSE]
    /\ hist' = [NoHist EXCEPT !.commits = hist.commits]
    /\ UNCHANGED <<snapfile, tmpfile, logfile, persisted, nsnap, reused, clock, logmeta,
                   backups, second>>

\* One writer at a time, and a crash at any point.
NextCrash ==
    \/ \E t \in Threads : Alone(t) /\ Step(t)
    \/ CrashRestart

\* The server starts without a snapshot file or on the one of an earlier run.
InitCrash == InitFrom({Absent, OldSnapshot})

\* Concurrent requests on a server that starts without a snapshot file: the
\* store is empty.
InitEmpty == InitFrom({Absent})

SpecEmpty == InitEmpty /\ [][Next]_vars

SpecCrash == InitCrash /\ [][NextCrash]_vars

\* ------------------------------------------------------------ one caller, many calls
\* The thread of a request that has ended serves a request that arrives
\* later, once every thread has served one.
Again(t) ==
    /\ pc[t] = "done"
    /\ \A u \in Threads : pc[u] = "done"
    /\ reused < MaxReuse
    /\ reused' = reused + 1
    /\ pc' = [pc EXCEPT ![t] = "new"]
    /\ UNCHANGED <<tasks, next_id, lock, loglock, snapfile, tmpfile, logfile, call, loc,
                   data, fd, result, created, logged, later, saved, persisted, nsnap,
                   boots, hist, clock, logmeta, backups, second>>

\* Requests arrive one after the other: no two calls overlap.
NextSeq ==
    \/ \E t \in Threads : Alone(t) /\ Step(t)
    \/ \E t \in Threads : Again(t)

SpecSeq == Init /\ [][NextSeq]_vars

\* ------------------------------------------------------------ load at start
\* The elements a snapshot file another program wrote may hold.
LoadRecords ==
    {NotObject,
     JObject(JInt(1), JStr(<<"a">>), JStr(<<"low">>), JBool(FALSE)),
     JObject(JInt(2), JStr(<<"b">>), JStr(<<"high">>), JBool(TRUE)),
     JObject(JInt(2), JStr(<<"a">>), JStr(<<"low">>), JBool(FALSE)),
     JObject(JInt(0), JStr(<<"a">>), JStr(<<"low">>), JBool(FALSE)),
     JObject(JInt(-2), JStr(<<"a">>), JStr(<<"low">>), JBool(FALSE)),
     JObject(Missing, JStr(<<"a">>), JStr(<<"low">>), JBool(FALSE)),
     JObject(JInt(3), Missing, JStr(<<"low">>), JBool(FALSE)),
     JObject(JStr(<<"3">>), JStr(<<"a">>), JStr(<<"low">>), JBool(FALSE)),
     JObject(JStr(<<"x">>), JStr(<<"a">>), JStr(<<"low">>), JBool(FALSE)),
     JObject(JNull, JStr(<<"a">>), JStr(<<"low">>), JBool(FALSE)),
     JObject(JFloat(2, "2.5"), JStr(<<"a">>), JStr(<<"low">>), JBool(FALSE)),
     JObject(JInf, JStr(<<"a">>), JStr(<<"low">>), JBool(FALSE)),
     JObject(JInt(3), JInt(3), JNull, JBool(FALSE)),
     JObject(JInt(3), JStr(<<"a">>), JStr(<<"low">>), JStr(<<"no">>))}

RECURSIVE SeqsUpTo(_, _)
SeqsUpTo(S, n) ==
    IF n = 0 THEN {<<>>}
    ELSE LET shorter == SeqsUpTo(S, n - 1)
         IN  shorter \cup {Append(q, x) : q \in shorter, x \in S}

\* The files load() may find at the snapshot path.
LoadFiles ==
    {Absent, Empty, Blank, Unreadable, Undecodable, Garbled, Scalar,
     Partial(OldSnapshot.data), OldSnapshot}
    \cup {ArrayFile(items) : items \in SeqsUpTo(LoadRecords, MaxItems)}

\* main(), line 20: the store is constructed; load() has not run yet.
InitLoad ==
    \E f \in LoadFiles :
        /\ snapfile = f
        /\ tasks = EmptyTasks
        /\ next_id = 1
        /\ persisted = [file |-> f, tasks |-> EmptyTasks, seq |-> 0]
        /\ nsnap = 0
        /\ boots = 0
        /\ hist = NoHist
        /\ reused = 0
        /\ clock = 0
        /\ logmeta = <<>>
        /\ backups = NoBackups
        /\ second = 0
        /\ lock = NoThread
        /\ loglock = NoThread
        /\ tmpfile = Absent
        /\ logfile = <<>>
        /\ pc = [t \in Threads |-> "new"]
        /\ call = [t \in Threads |-> NoCall]
        /\ loc = [t \in Threads |-> NoLoc]
        /\ data = [t \in Threads |-> <<>>]
        /\ fd = [t \in Threads |-> "none"]
        /\ result = [t \in Threads |-> NoResult]
        /\ created = <<>>
        /\ logged = [t \in Threads |-> <<>>]
        /\ later = [t \in Threads |-> FALSE]
        /\ saved = [t \in Threads |-> FALSE]

\* main(), line 21: store.load() on the store just constructed, before the
\* server takes requests.  An exception load lets out ends main().
LoadStore(t) ==
    /\ \A u \in Threads : pc[u] = "new"
    /\ Begin(t, [NoCall EXCEPT !.op = "load"])
    /\ lock = NoThread
    /\ LET r == Load(snapfile)
       IN  /\ tasks' = r.tasks
           /\ next_id' = r.next_id
           /\ result' = [result EXCEPT ![t] =
                           IF r.raised = "none" THEN RetNone ELSE Raised(r.raised)]
    /\ pc' = [pc EXCEPT ![t] = "ret"]
    /\ UNCHANGED <<lock, loglock, snapfile, tmpfile, logfile, loc, data, fd, created,
                   later, persisted, nsnap, boots, hist, reused, clock, logmeta, backups, second>>

NextLoad ==
    \/ \E t \in Threads : LoadStore(t)
    \/ \E t \in Threads : Return(t)

SpecLoad == InitLoad /\ [][NextLoad]_vars

\* ------------------------------------------------------------ src/storage.py
\* The TaskStore of src/storage.py, which src/http_server.py serves: the same
\* lock, collection, counter and save, no action log, and create_task and
\* complete_task as its only mutations.

\* create_task, lines 68-79 with bad arguments: ValueError.
LegacyCreateRejected(t, title, priority) ==
    /\ Begin(t, [op |-> "legacy_create", task_id |-> 0, title |-> title, priority |-> priority])
    /\ ~CreateArgsOK(title, priority)
    /\ pc' = [pc EXCEPT ![t] = "ret"]
    /\ loc' = [loc EXCEPT ![t] = NoLoc]
    /\ result' = [result EXCEPT ![t] = Raised("ValueError")]
    /\ UNCHANGED <<tasks, next_id, lock, loglock, snapfile, tmpfile, logfile, data, fd,
                   created, later, persisted, nsnap, boots, hist, reused, clock, logmeta,
                   backups, second>>

\* create_task, lines 68-85 with good arguments.
LegacyCreateLocked(t, title, priority) ==
    /\ Begin(t, [op |-> "legacy_create", task_id |-> 0, title |-> title, priority |-> priority])
    /\ CreateArgsOK(title, priority)
    /\ lock = NoThread
    /\ LET task_id == AllocId(next_id, tasks)
       IN  /\ next_id' = NextIdAfter(next_id)
           /\ tasks' = Put(tasks, task_id, Task(task_id, strip(title.s), strip(priority.s), FALSE))
           /\ loc' = [loc EXCEPT ![t] = [NoLoc EXCEPT !.task_id = task_id,
                                                      !.status = "success",
                                                      !.title = Str(strip(title.s)),
                                                      !.priority = Str(strip(priority.s))]]
           /\ created' = Append(created, task_id)
    /\ pc' = [pc EXCEPT ![t] = "save_snap"]
    /\ UNCHANGED <<result, lock, loglock, snapfile, tmpfile, logfile, data, fd, later,
                   persisted, nsnap, boots, hist, reused, clock, logmeta, backups, second>>

\* complete_task, lines 91-94: no such task, return False.
LegacyCompleteMissing(t, task_id) ==
    /\ MutCall(t, "legacy_complete", task_id, NoneVal, NoneVal)
    /\ task_id \notin DOMAIN tasks
    /\ loc' = [loc EXCEPT ![t] = [NoLoc EXCEPT !.task_id = task_id, !.status = "not_found"]]
    /\ result' = [result EXCEPT ![t] = RetBool(FALSE)]
    /\ pc' = [pc EXCEPT ![t] = "ret"]
    /\ UNCHANGED <<tasks, next_id, lock, loglock, snapfile, tmpfile, logfile, data, fd,
                   created, later, persisted, nsnap, boots, hist, reused, clock, logmeta,
                   backups, second>>

\* complete_task, lines 95-96: the task is done already, return True from
\* inside the with block; self.save() is not reached.
LegacyCompleteDone(t, task_id) ==
    /\ MutCall(t, "legacy_complete", task_id, NoneVal, NoneVal)
    /\ task_id \in DOMAIN tasks
    /\ tasks[task_id].is_done
    /\ loc' = [loc EXCEPT ![t] = [NoLoc EXCEPT !.task_id = task_id, !.status = "success",
                                               !.was_done = TRUE, !.obj = tasks[task_id]]]
    /\ result' = [result EXCEPT ![t] = RetBool(TRUE)]
    /\ pc' = [pc EXCEPT ![t] = "ret"]
    /\ UNCHANGED <<tasks, next_id, lock, loglock, snapfile, tmpfile, logfile, data, fd,
                   created, later, persisted, nsnap, boots, hist, reused, clock, logmeta,
                   backups, second>>

\* complete_task, lines 91-97: the task is there and not done.
LegacyCompleteLocked(t, task_id) ==
    /\ MutCall(t, "legacy_complete", task_id, NoneVal, NoneVal)
    /\ task_id \in DOMAIN tasks
    /\ ~tasks[task_id].is_done
    /\ tasks' = [tasks EXCEPT ![task_id] = MarkDone(@)]
    /\ loc' = [loc EXCEPT ![t] = [NoLoc EXCEPT !.task_id = task_id, !.status = "success",
                                               !.obj = tasks[task_id]]]
    /\ pc' = [pc EXCEPT ![t] = "save_snap"]
    /\ Overtaken(t, task_id)
    /\ hist' = [hist EXCEPT !.completed = @ \cup {task_id}]
    /\ UNCHANGED <<next_id, lock, loglock, snapfile, tmpfile, logfile, data, fd, result,
                   created, persisted, nsnap, boots, reused, clock, logmeta, backups, second>>

LegacyStep(t) ==
    \/ \E a \in CreateInputs : LegacyCreateRejected(t, a[1], a[2])
    \/ \E a \in CreateInputs : LegacyCreateLocked(t, a[1], a[2])
    \/ \E id \in TaskIds : LegacyCompleteMissing(t, id)
    \/ \E id \in TaskIds : LegacyCompleteDone(t, id)
    \/ \E id \in TaskIds : LegacyCompleteLocked(t, id)
    \/ ListTasks(t)
    \/ SaveSnapshot(t)
    \/ SaveOpen(t)
    \/ SaveRaises(t)
    \/ SaveFlush(t)
    \/ SaveClose(t)
    \/ SaveReplace(t)
    \/ CreateReturn(t)
    \/ Return(t)

NextLegacy == \E t \in Threads : LegacyStep(t)

SpecLegacy == Init /\ [][NextLegacy]_vars

\* ------------------------------------------------------------ claims
\* The committed creates that have not returned yet.
Creating == {t \in Threads : call[t].op = "create" /\ loc[t].status = "success"}

\* The IDs of the collection the process loaded at start.
LoadedIds == {d.id : d \in {OldSnapshot.data[i] : i \in 1..Len(OldSnapshot.data)}}

\* C1: the IDs create hands out follow the order of the lock, each one more
\* than the one before; the ID a create returns is the one it took under the
\* lock; no two creates hold the same ID and no two tasks of the collection
\* have the same ID.
C1_IdsDistinctAndIncreasing ==
    /\ \A i \in 1..(Len(created) - 1) : created[i + 1] = created[i] + 1
    /\ \A t, u \in Creating : t # u => loc[t].task_id # loc[u].task_id
    /\ \A t \in Creating : /\ \E i \in 1..Len(created) : created[i] = loc[t].task_id
                           /\ result[t].kind = "task" => result[t].val[1].id = loc[t].task_id
    /\ \A k1, k2 \in DOMAIN tasks : k1 # k2 => tasks[k1].id # tasks[k2].id

\* Two creates ran concurrently: one has returned its task while the other
\* is still saving.
C1_Witness ==
    \E t, u \in Creating :
        /\ pc[t] = "ret" /\ result[t].kind = "task"
        /\ pc[u] \in {"save_open", "save_write", "save_close", "save_replace"}
        /\ Len(created) = 2

\* C2: the counter is above every ID of the collection and above every ID
\* create has given out, and create never gives out an ID a second time nor
\* an ID the loaded collection held, deleted or not.
C2_CounterAboveEveryId ==
    /\ \A k \in DOMAIN tasks : next_id > tasks[k].id
    /\ \A i \in 1..Len(created) : next_id > created[i] /\ created[i] \notin LoadedIds
    /\ \A i, j \in 1..Len(created) : i # j => created[i] # created[j]

\* The loaded task was deleted by a call that has ended, and a create after
\* it returned the next ID, not the freed one.
C2_Witness ==
    /\ pc[1] = "done"
    /\ DOMAIN tasks = {2}
    /\ pc[2] = "ret" /\ call[2].op = "create"
    /\ result[2].kind = "task" /\ result[2].val[1].id = 2

\* A title or priority create must refuse.
BadTitle(title) == title.kind # "str" \/ strip(title.s) = <<>>
BadPriority(priority) ==
    priority.kind # "str" \/ strip(priority.s) \notin {<<"low">>, <<"normal">>, <<"high">>}

Starts(t, op) == pc[t] = "new" /\ pc'[t] # "new" /\ call'[t].op = op

\* C3: a create with a bad title or a bad priority ends with ValueError at
\* once and leaves the collection, the counter, both files of the snapshot
\* and the action log as they were.
C3_RejectedCreateChangesNothing ==
    [][\A t \in Threads :
          (Starts(t, "create") /\ (BadTitle(call'[t].title) \/ BadPriority(call'[t].priority)))
          => /\ pc'[t] = "ret"
             /\ result'[t] = Raised("ValueError")
             /\ UNCHANGED <<tasks, next_id, snapfile, tmpfile, logfile>>]_vars

\* A create with priority "urgent" was refused while the store held a task.
C3_Witness ==
    \E t \in Threads :
        /\ pc[t] = "ret" /\ call[t].op = "create"
        /\ call[t].priority = Str(<<"urgent">>)
        /\ result[t] = Raised("ValueError")
        /\ tasks # EmptyTasks

\* The records of the snapshot file for task id, when the file holds one
\* whole snapshot.
FileRecords(id) ==
    IF snapfile.st = "complete"
    THEN {snapfile.data[i] : i \in {j \in 1..Len(snapfile.data) : snapfile.data[j].id = id}}
    ELSE {}

\* The snapshot file holds what the call of t did to its task.
Reflects(t) ==
    /\ snapfile.st = "complete"
    /\ call[t].op = "create" =>
         \E d \in FileRecords(loc[t].task_id) :
             d.title = loc[t].title.s /\ d.priority = loc[t].priority.s /\ d.isDone = FALSE
    /\ call[t].op = "update" =>
         \E d \in FileRecords(loc[t].task_id) :
             /\ loc[t].title.kind = "str" => d.title = loc[t].title.s
             /\ loc[t].priority.kind = "str" => d.priority = loc[t].priority.s
    /\ call[t].op = "complete" => \E d \in FileRecords(loc[t].task_id) : d.isDone = TRUE
    /\ call[t].op = "delete" => FileRecords(loc[t].task_id) = {}

\* The call of t has ended with success: create has its task, the others True.
Succeeded(t) ==
    /\ pc[t] = "ret"
    /\ call[t].op \in {"create", "update", "complete", "delete"}
    /\ result[t].kind = "task" \/ result[t] = RetBool(TRUE)

\* C4: when a create, update, complete or delete returns with success, the
\* snapshot file holds what the call did to its task, unless another
\* mutation of that task has committed since.
C4_ReturnedMutationIsOnDisk ==
    \A t \in Threads : (Succeeded(t) /\ ~later[t]) => Reflects(t)

\* C5: a snapshot taken earlier never replaces one taken later: every
\* os.replace installs a snapshot taken after the one the file held.
C5_SnapshotsReplacedInOrder ==
    [][\A t \in Threads :
          (pc[t] = "save_replace" /\ pc'[t] = "log") => loc[t].seq > persisted.seq]_vars

\* C6: the file at the snapshot path is absent or holds one whole snapshot,
\* and no save ends with FileNotFoundError for a temporary file another
\* writer has renamed.
C6_SnapshotFileIsWhole ==
    /\ snapfile.st \in {"absent", "complete"}
    /\ \A t \in Threads : result[t] # Raised("FileNotFoundError")

\* C7: with one writer, whatever the point of save at which the process dies,
\* the file at the snapshot path is the one the last completed save wrote
\* (or the one the server started on), and the restart loads exactly the
\* collection of that save.
C7_CrashKeepsLastSnapshot ==
    /\ [](snapfile = persisted.file)
    /\ [][boots' # boots => tasks' = persisted.tasks]_vars

\* The process died while a save was writing the temporary file, after an
\* earlier save had completed, and came up with the collection of that save.
C7_Witness ==
    /\ boots = 1
    /\ tmpfile.st = "partial"
    /\ persisted.seq = 1
    /\ snapfile = persisted.file
    /\ tasks = persisted.tasks
    /\ \A t \in Threads : pc[t] = "done"

\* C8: an update of a task that is there, with both fields given and one of
\* them bad, ends with ValueError and changes neither title nor priority.
C8_UpdateAllOrNothing ==
    [][\A t \in Threads :
          (/\ Starts(t, "update")
           /\ call'[t].task_id \in DOMAIN tasks
           /\ call'[t].title.kind # "none" /\ call'[t].priority.kind # "none"
           /\ BadTitle(call'[t].title) \/ BadPriority(call'[t].priority))
          => /\ result'[t] = Raised("ValueError")
             /\ call'[t].task_id \in DOMAIN tasks'
             /\ tasks'[call'[t].task_id].title = tasks[call'[t].task_id].title
             /\ tasks'[call'[t].task_id].priority = tasks[call'[t].task_id].priority]_vars

\* C9: update, complete and delete of an ID that is not there append one
\* record (the action, the ID, not_found) and return False; no step of the
\* call changes the collection, the counter or a file of the snapshot.
C9_NotFoundOnlyLogs ==
    [][\A t \in Threads :
          /\ (/\ pc[t] = "new" /\ pc'[t] # "new"
              /\ call'[t].op \in {"update", "complete", "delete"}
              /\ call'[t].task_id \notin DOMAIN tasks)
             => /\ pc'[t] = "log"
                /\ loc'[t].status = "not_found"
                /\ logged'[t] = <<>>
                /\ UNCHANGED <<tasks, next_id, snapfile, tmpfile, logfile>>
          /\ (pc[t] = "log_write" /\ loc[t].status = "not_found" /\ pc'[t] # "log_write")
             => /\ pc'[t] = "ret"
                /\ result'[t] = RetBool(FALSE)
                /\ logfile' = Append(logfile,
                                     ActionRecord(call[t].op, call[t].task_id, "not_found"))
                /\ logged'[t] = <<ActionRecord(call[t].op, call[t].task_id, "not_found")>>
                /\ ~saved[t]
                /\ UNCHANGED <<tasks, next_id, snapfile, tmpfile>>
          /\ (pc[t] = "ret" /\ loc[t].status = "not_found" /\ pc'[t] # "ret")
             => /\ pc'[t] = "done"
                /\ UNCHANGED <<tasks, next_id, snapfile, tmpfile, logfile>>]_vars

\* A delete of an ID that is not there has returned False with its record in
\* the log, after another call had written the log.
C9_Witness ==
    \E t \in Threads :
        /\ pc[t] = "ret" /\ call[t].op = "delete"
        /\ call[t].task_id \notin DOMAIN tasks
        /\ result[t] = RetBool(FALSE)
        /\ Len(logfile) = 2
        /\ logfile[2] = ActionRecord("delete", call[t].task_id, "not_found")

\* C10: complete of a task that is done already returns True, leaves the
\* title, the priority and the flag of the task as they were, has replaced
\* the snapshot file and has appended one record with status success.
C10_CompleteIsIdempotent ==
    \A t \in Threads :
        (/\ pc[t] = "ret"
         /\ call[t].op \in {"complete", "legacy_complete"}
         /\ loc[t].was_done)
        => /\ result[t] = RetBool(TRUE)
           /\ loc[t].task_id \in DOMAIN tasks => tasks[loc[t].task_id] = loc[t].obj
           /\ saved[t]
           /\ logged[t] = <<ActionRecord("complete", loc[t].task_id, "success")>>

\* C11: the completion flag goes one way: a task that is done in the
\* collection is done after every step that leaves its ID in the collection.
C11_DoneStaysDone ==
    [][\A id \in DOMAIN tasks :
          (tasks[id].is_done /\ id \in DOMAIN tasks') => tasks'[id].is_done]_vars

\* A task was completed by one call and then updated by another, which has
\* returned True: the task has its new title and is still done.
C11_Witness ==
    \E t \in Threads :
        /\ pc[t] = "ret" /\ call[t].op = "update"
        /\ result[t] = RetBool(TRUE)
        /\ loc[t].task_id \in DOMAIN tasks
        /\ tasks[loc[t].task_id].is_done
        /\ tasks[loc[t].task_id].title = <<"b">>

\* C12: once delete_task has returned True for an ID, the ID is not in the
\* collection, list_tasks does not show it, get_task returns None for it,
\* and update_task, complete_task and delete_task on it take the not-found
\* branch: they append the not_found record and return False.
C12_DeletedStaysGone ==
    /\ [](\A id \in hist.deleted : id \notin DOMAIN tasks)
    /\ [][\A t \in Threads :
            /\ Starts(t, "list")
               => \A i \in 1..Len(result'[t].val) : result'[t].val[i].id \notin hist.deleted
            /\ (Starts(t, "get") /\ call'[t].task_id \in hist.deleted)
               => result'[t] = RetNone
            /\ (/\ pc[t] = "new" /\ pc'[t] # "new"
                /\ call'[t].op \in {"update", "complete", "delete"}
                /\ call'[t].task_id \in hist.deleted)
               => pc'[t] = "log" /\ loc'[t].status = "not_found"
            /\ (/\ pc[t] = "log_write" /\ pc'[t] # "log_write"
                /\ loc[t].status = "not_found"
                /\ loc[t].task_id \in hist.deleted)
               => /\ result'[t] = RetBool(FALSE)
                  /\ logfile' = Append(logfile,
                                       ActionRecord(call[t].op, loc[t].task_id, "not_found"))]_vars

\* Task 1 was deleted, a create ran after that, and a second delete of task 1
\* has returned False with its not_found record last in the log.
C12_Witness ==
    \E t \in Threads :
        /\ hist.deleted = {1}
        /\ DOMAIN tasks = {2}
        /\ pc[t] = "ret" /\ call[t].op = "delete" /\ call[t].task_id = 1
        /\ result[t] = RetBool(FALSE)
        /\ Len(logfile) = 3
        /\ logfile[3] = ActionRecord("delete", 1, "not_found")

\* What list_tasks must return for the collection ts: every task of it once,
\* as its dict, in ascending order of ID.
ListsExactly(l, ts) ==
    /\ Len(l) = Cardinality(DOMAIN ts)
    /\ \A k \in DOMAIN ts : \E i \in 1..Len(l) : l[i] = to_dict(ts[k])
    /\ \A i, j \in 1..Len(l) : i < j => l[i].id < l[j].id

\* The list l has the task create_task returned as d, not done.
ListsAsCreated(l, d) ==
    \E i \in 1..Len(l) : l[i] = [d EXCEPT !.isDone = FALSE]

\* C13 as stated: list_tasks returns the collection in ascending order of
\* ID, and a task create_task has returned is in the list as created (its
\* ID, trimmed title, trimmed priority, not done) as long as no update_task
\* and no delete_task has run on it.
C13_ListShowsCreatedUnlessChanged ==
    [][\A t \in Threads :
          Starts(t, "list")
          => /\ ListsExactly(result'[t].val, tasks)
             /\ \A d \in hist.returned :
                    d.id \notin hist.changed => ListsAsCreated(result'[t].val, d)]_vars

\* C13 amended: the same, as long as no update_task, no delete_task and no
\* complete_task has run on the task.
C13_ListShowsCreatedUnlessTouched ==
    [][\A t \in Threads :
          Starts(t, "list")
          => /\ ListsExactly(result'[t].val, tasks)
             /\ \A d \in hist.returned :
                    d.id \notin (hist.changed \cup hist.completed)
                    => ListsAsCreated(result'[t].val, d)]_vars

\* A create has returned task 2 and the list taken after it has the loaded
\* task and the created one, in this order.
C13_Witness ==
    \E t \in Threads :
        /\ pc[t] = "ret" /\ call[t].op = "list"
        /\ hist.returned = {to_dict(Task(2, <<"b">>, <<"high">>, FALSE))}
        /\ hist.changed = {} /\ hist.completed = {}
        /\ Len(result[t].val) = 2
        /\ result[t].val[1].id = 1
        /\ result[t].val[2] = to_dict(Task(2, <<"b">>, <<"high">>, FALSE))

\* C14: save and then load on a fresh store give back the collection: for
\* the collection of every reachable state, save writes its snapshot, and
\* loading that file yields the same tasks (IDs, titles, priorities, flags)
\* and a counter above every ID.
C14_SaveLoadRoundTrip ==
    LET d == Snapshot(tasks)
        r == Load(Complete(d))
    IN  /\ Encodable(d)
        /\ r.raised = "none"
        /\ r.tasks = tasks
        /\ \A k \in DOMAIN tasks : r.next_id >= tasks[k].id + 1

\* load() has run on the store just constructed.
Loaded(t) == pc[t] = "ret" /\ call[t].op = "load"

\* C15: load on a fresh store over a file that is absent, empty, unreadable,
\* no JSON text or the text of something that is no array returns normally
\* with the collection empty and the counter 1.
C15_LoadNeverFails ==
    \A t \in Threads :
        (Loaded(t) /\ snapfile.st \notin {"complete", "array"})
        => /\ result[t] = RetNone
           /\ tasks = EmptyTasks
           /\ next_id = 1

\* A record as save() writes it: an object whose id is an integer, whose
\* title and priority are strings and whose isDone is a boolean.
WellFormed(item) ==
    /\ item.kind = "object"
    /\ item.id.k = "int"
    /\ item.title.k = "str"
    /\ item.priority.k = "str"
    /\ item.isDone.k = "bool"

\* C16: load skips every malformed record and loads every well-formed one:
\* it returns normally with the collection it builds from the well-formed
\* records alone.
C16_MalformedRecordsSkipped ==
    \A t \in Threads :
        (Loaded(t) /\ snapfile.st = "array")
        => /\ result[t] = RetNone
           /\ tasks = LoadItems(SelectSeq(snapfile.data, WellFormed), EmptyTasks, 0).tasks

\* The largest of a non-empty set of integers.
MaxOf(S) == CHOOSE x \in S : \A y \in S : y <= x

\* C17: after load of an array, the counter is one more than the largest ID
\* among the records load took, or 1 when it took none.
C17_CounterIsMaxPlusOne ==
    \A t \in Threads :
        (Loaded(t) /\ snapfile.st = "array" /\ result[t] = RetNone)
        => next_id = IF DOMAIN tasks = {} THEN 1 ELSE MaxOf(DOMAIN tasks) + 1

\* ------------------------------------------------------------ log failure
\* ActionLogger.log, lines 52-56, the log file being out of reach: makedirs
\* or open raises OSError inside "with self._lock".  Nothing is appended.
\* _log (storage.py, lines 31-33) and its callers catch nothing, so the
\* exception leaves the operation; the locks are released on the way out.
LogFails(t) ==
    /\ pc[t] = "log_write"
    /\ loglock = NoThread
    /\ lock' = Release(t)
    /\ result' = [result EXCEPT ![t] = Raised("OSError")]
    /\ pc' = [pc EXCEPT ![t] = "ret"]
    /\ UNCHANGED <<tasks, next_id, loglock, snapfile, tmpfile, logfile, call, loc, data,
                   fd, created, logged, later, saved, persisted, nsnap, boots, hist,
                   reused, clock, logmeta, backups, second>>

\* Concurrent requests on a server whose audit log may be out of reach.
NextLogFail ==
    \/ \E t \in Threads : Step(t)
    \/ \E t \in Threads : LogFails(t)

SpecLogFail == Init /\ [][NextLogFail]_vars

\* ------------------------------------------------------------ tail
\* The log as ActionLogger.tail reads it: the file may be missing, and a line
\* of it is the JSON of a record, blank, or text json.loads rejects.
NoLogFile == [exists |-> FALSE, lines |-> <<>>]
LogFile(lines) == [exists |-> TRUE, lines |-> lines]
JsonLine(rec) == [kind |-> "json", rec |-> rec]
BlankLine == [kind |-> "blank", rec |-> ActionRecord("", 0, "")]
GarbageLine == [kind |-> "garbage", rec |-> ActionRecord("", 0, "")]

\* lines[-limit:]
LastLines(lines, limit) ==
    IF limit >= Len(lines) THEN lines
    ELSE SubSeq(lines, Len(lines) - limit + 1, Len(lines))

\* Lines 74-81: blank lines and lines json.loads rejects are passed over, the
\* others give their records.
ParsedRecords(lines) ==
    LET kept == SelectSeq(lines, LAMBDA l : l.kind = "json")
    IN  [i \in 1..Len(kept) |-> kept[i].rec]

\* ActionLogger.tail, lines 60-82: nothing for limit <= 0 and for a missing
\* file; else the last limit lines are cut off first and parsed after that.
tail(file, limit) ==
    IF limit <= 0 THEN <<>>
    ELSE IF ~file.exists THEN <<>>
    ELSE ParsedRecords(LastLines(file.lines, limit))

\* The line the k-th mutation of a run appends: the record of the create of
\* task k.
LineOf(kind, k) ==
    IF kind = "json" THEN JsonLine(ActionRecord("create", k, "success"))
    ELSE IF kind = "blank" THEN BlankLine
    ELSE GarbageLine

LogFiles ==
    {NoLogFile}
    \cup {LogFile([k \in 1..Len(kinds) |-> LineOf(kinds[k], k)]) :
              kinds \in SeqsUpTo({"json", "blank", "garbage"}, MaxLines)}

\* A server with a log of an earlier run, and no request yet.
InitTail ==
    \E f \in LogFiles :
        /\ logfile = f
        /\ snapfile = Absent
        /\ tasks = EmptyTasks
        /\ next_id = 1
        /\ persisted = [file |-> Absent, tasks |-> EmptyTasks, seq |-> 0]
        /\ nsnap = 0
        /\ boots = 0
        /\ hist = NoHist
        /\ reused = 0
        /\ clock = 0
        /\ logmeta = <<>>
        /\ backups = NoBackups
        /\ second = 0
        /\ lock = NoThread
        /\ loglock = NoThread
        /\ tmpfile = Absent
        /\ pc = [t \in Threads |-> "new"]
        /\ call = [t \in Threads |-> NoCall]
        /\ loc = [t \in Threads |-> NoLoc]
        /\ data = [t \in Threads |-> <<>>]
        /\ fd = [t \in Threads |-> "none"]
        /\ result = [t \in Threads |-> NoResult]
        /\ created = <<>>
        /\ logged = [t \in Threads |-> <<>>]
        /\ later = [t \in Threads |-> FALSE]
        /\ saved = [t \in Threads |-> FALSE]

\* get_logs, storage.py lines 95-98: the store has a logger, and hands the
\* limit to its tail.  No lock is taken.
GetLogs(t, limit) ==
    /\ Begin(t, [op |-> "get_logs", task_id |-> 0, title |-> NoneVal,
                 priority |-> NoneVal, limit |-> limit])
    /\ result' = [result EXCEPT ![t] = RetList(tail(logfile, limit))]
    /\ pc' = [pc EXCEPT ![t] = "ret"]
    /\ UNCHANGED <<tasks, next_id, lock, loglock, snapfile, tmpfile, logfile, loc, data,
                   fd, created, later, persisted, nsnap, boots, hist, reused, clock,
                   logmeta, backups, second>>

\* do_GET, http_server.py lines 74-84: GET /admin/logs?limit=N.  A limit
\* below 1 is made 1 before the store is asked; the answer is 200 with the
\* list.
HttpGetLogs(t, limit) ==
    /\ Begin(t, [op |-> "GET /admin/logs", task_id |-> 0, title |-> NoneVal,
                 priority |-> NoneVal, limit |-> limit])
    /\ result' = [result EXCEPT ![t] =
                    RetList(tail(logfile, IF limit <= 0 THEN 1 ELSE limit))]
    /\ pc' = [pc EXCEPT ![t] = "ret"]
    /\ UNCHANGED <<tasks, next_id, lock, loglock, snapfile, tmpfile, logfile, loc, data,
                   fd, created, later, persisted, nsnap, boots, hist, reused, clock,
                   logmeta, backups, second>>

NextTail ==
    \/ \E t \in Threads, limit \in -1..MaxLimit : GetLogs(t, limit)
    \/ \E t \in Threads, limit \in -1..MaxLimit : HttpGetLogs(t, limit)
    \/ \E t \in Threads : Return(t)

SpecTail == InitTail /\ [][NextTail]_vars

\* ------------------------------------------------------------ backup
\* The snapshot file perform_backup is given: the storage_path of the store.
BackupSourceTmp == tmpfile

BackupSource == snapfile

RetPath(name) == [kind |-> "path", val |-> <<name>>]

\* perform_backup, backup.py lines 14-15: the snapshot file is not there.
BackupMissing(t) ==
    /\ Begin(t, [NoCall EXCEPT !.op = "backup"])
    /\ BackupSource.st = "absent"
    /\ result' = [result EXCEPT ![t] = Raised("FileNotFoundError")]
    /\ pc' = [pc EXCEPT ![t] = "ret"]
    /\ UNCHANGED <<tasks, next_id, lock, loglock, snapfile, tmpfile, logfile, loc, data,
                   fd, created, later, persisted, nsnap, boots, hist, reused, clock,
                   logmeta, backups, second>>

\* perform_backup, lines 14-24: the snapshot file is there, the backups
\* directory is made if it is missing, and the name of the copy is built from
\* datetime.utcnow() cut to the second: the second of the call before, or a
\* later one.
BackupName(t) ==
    /\ Begin(t, [NoCall EXCEPT !.op = "backup"])
    /\ BackupSource.st # "absent"
    /\ backups' = [backups EXCEPT !.dir = TRUE]
    /\ \E pass \in {0, 1} :
          /\ second' = second + pass
          /\ loc' = [loc EXCEPT ![t] = [NoLoc EXCEPT !.ts = second + pass]]
    /\ pc' = [pc EXCEPT ![t] = "backup_copy"]
    /\ UNCHANGED <<tasks, next_id, lock, loglock, snapfile, tmpfile, logfile, data,
                   fd, result, created, later, persisted, nsnap, boots, hist, reused,
                   clock, logmeta>>

\* perform_backup, lines 26-27: shutil.copy2 writes the content of the
\* snapshot file to the path, over a file that is there already, and the path
\* is returned.
BackupCopy(t) ==
    /\ pc[t] = "backup_copy"
    /\ backups' = [backups EXCEPT !.files =
                      [n \in DOMAIN @ \cup {loc[t].ts} |->
                          IF n = loc[t].ts THEN BackupSource ELSE @[n]]]
    /\ result' = [result EXCEPT ![t] = RetPath(loc[t].ts)]
    /\ pc' = [pc EXCEPT ![t] = "ret"]
    /\ UNCHANGED <<tasks, next_id, lock, loglock, snapfile, tmpfile, logfile, call, loc,
                   data, fd, created, logged, later, saved, persisted, nsnap, boots,
                   hist, reused, clock, logmeta, second>>

BackupStep(t) ==
    \/ BackupMissing(t)
    \/ BackupName(t)
    \/ BackupCopy(t)

\* Requests on the store and backups of its snapshot file, on a server that
\* started without a snapshot file or on the one of an earlier run.
NextBackup ==
    \/ \E t \in Threads : Step(t)
    \/ \E t \in Threads : BackupStep(t)

SpecBackup == InitCrash /\ [][NextBackup]_vars

\* ------------------------------------------------------------ backup race
\* POST /admin/backup served by a thread of its own, next to the threads of
\* the requests on the store.  perform_backup, lines 14-15.
AdminBackupMissing ==
    /\ backups.job.st = "none"
    /\ BackupSource.st = "absent"
    /\ backups' = [backups EXCEPT !.job = [st |-> "raised", name |-> 0]]
    /\ UNCHANGED <<tasks, next_id, lock, loglock, snapfile, tmpfile, logfile, pc, call,
                   loc, data, fd, result, created, logged, later, saved, persisted,
                   nsnap, boots, hist, reused, clock, logmeta, second>>

\* perform_backup, lines 14-24, as in BackupName.
AdminBackupName ==
    /\ backups.job.st = "none"
    /\ BackupSource.st # "absent"
    /\ \E pass \in {0, 1} :
          /\ second' = second + pass
          /\ backups' = [backups EXCEPT !.dir = TRUE,
                                        !.job = [st |-> "copy", name |-> second + pass]]
    /\ UNCHANGED <<tasks, next_id, lock, loglock, snapfile, tmpfile, logfile, pc, call,
                   loc, data, fd, result, created, logged, later, saved, persisted,
                   nsnap, boots, hist, reused, clock, logmeta>>

\* perform_backup, lines 26-27, as in BackupCopy: what the file at the
\* snapshot path holds now is what the copy holds.
AdminBackupCopy ==
    /\ backups.job.st = "copy"
    /\ backups' = [backups EXCEPT
                      !.files = [n \in DOMAIN @ \cup {backups.job.name} |->
                                    IF n = backups.job.name THEN BackupSource ELSE @[n]],
                      !.job = [st |-> "done", name |-> backups.job.name]]
    /\ UNCHANGED <<tasks, next_id, lock, loglock, snapfile, tmpfile, logfile, pc, call,
                   loc, data, fd, result, created, logged, later, saved, persisted,
                   nsnap, boots, hist, reused, clock, logmeta, second>>

AdminBackup ==
    \/ AdminBackupMissing
    \/ AdminBackupName
    \/ AdminBackupCopy

\* A backup that runs while the requests on the store run.
NextBackupRace ==
    \/ \E t \in Threads : Step(t)
    \/ AdminBackup

SpecBackupRace == InitCrash /\ [][NextBackupRace]_vars

\* ------------------------------------------------------------ save failure
\* save, line 81: open(tmp_path, "w") raises OSError (no permission, no
\* space, no directory); no file is made or changed.
SaveOpenFails(t) ==
    /\ pc[t] = "save_open"
    /\ result' = [result EXCEPT ![t] = Raised("OSError")]
    /\ pc' = [pc EXCEPT ![t] = AfterSaveError]
    /\ UNCHANGED <<tasks, next_id, lock, loglock, snapfile, tmpfile, logfile, call, loc,
                   data, fd, created, logged, later, saved, persisted, nsnap, boots,
                   hist, reused, clock, logmeta, backups, second>>

\* save, line 84: os.replace raises OSError; both files stay as they are.
SaveReplaceFails(t) ==
    /\ pc[t] = "save_replace"
    /\ result' = [result EXCEPT ![t] = Raised("OSError")]
    /\ pc' = [pc EXCEPT ![t] = AfterSaveError]
    /\ UNCHANGED <<tasks, next_id, lock, loglock, snapfile, tmpfile, logfile, call, loc,
                   data, fd, created, logged, later, saved, persisted, nsnap, boots,
                   hist, reused, clock, logmeta, backups, second>>

SaveFails(t) ==
    \/ SaveOpenFails(t)
    \/ SaveReplaceFails(t)

\* Concurrent requests on a server whose disk may refuse the snapshot.
NextSaveFail ==
    \/ \E t \in Threads : Step(t)
    \/ \E t \in Threads : SaveFails(t)

SpecSaveFail == Init /\ [][NextSaveFail]_vars

\* ------------------------------------------------------------ HTTP
\* What the client of a request gets: a status with a body, or, when the
\* handler lets an exception out, a closed connection without a status line.
Http(status, body) == [kind |-> "http", val |-> <<status, body>>]
Body(kind, v) == [kind |-> kind, v |-> v]
NoBody == Body("empty", <<>>)
ErrorBody == Body("error", <<>>)
NullBody == Body("null", <<>>)
NoAnswer == [kind |-> "http", val |-> <<0, NoBody>>]

\* do_POST, http_server.py lines 102-105: POST /tasks without a JSON object
\* as its body is answered 400 and the store is not called.
PostWithoutBody(t) ==
    /\ Begin(t, [NoCall EXCEPT !.op = "POST /tasks"])
    /\ result' = [result EXCEPT ![t] = Http(400, ErrorBody)]
    /\ pc' = [pc EXCEPT ![t] = "ret"]
    /\ UNCHANGED <<tasks, next_id, lock, loglock, snapfile, tmpfile, logfile, loc, data,
                   fd, created, later, persisted, nsnap, boots, hist, reused, clock,
                   logmeta, backups, second>>

\* "except Exception as e: self._send_json(400, ...)", lines 113-115 and
\* 147-149: every exception of create_task and update_task is answered 400.
StatusOfError(r) == 400

\* The handler has its call on the store back and answers.  do_POST, lines
\* 111-118 (create) and 120-128 (complete), do_PUT, lines 144-153, do_DELETE,
\* lines 166-171, do_GET, lines 69-72.  complete_task and delete_task are
\* called outside any try, so their exceptions leave the handler.
Answer(t) ==
    /\ pc[t] = "ret"
    /\ result[t].kind # "http"
    /\ call[t].op \in {"create", "update", "complete", "delete", "list"}
    /\ ~(call[t].op = "update" /\ result[t] = RetBool(TRUE))
    /\ result' = [result EXCEPT ![t] =
                    CASE call[t].op = "list" -> Http(200, Body("list", result[t].val))
                      [] call[t].op = "create" ->
                           IF result[t].kind = "task"
                           THEN Http(200, Body("task", result[t].val[1]))
                           ELSE Http(StatusOfError(result[t]), ErrorBody)
                      [] call[t].op = "update" ->
                           IF result[t] = RetBool(FALSE) THEN Http(404, NoBody)
                           ELSE Http(StatusOfError(result[t]), ErrorBody)
                      [] OTHER ->
                           IF result[t] = RetBool(TRUE) THEN Http(200, NoBody)
                           ELSE IF result[t] = RetBool(FALSE) THEN Http(404, NoBody)
                           ELSE NoAnswer]
    /\ UNCHANGED <<tasks, next_id, lock, loglock, snapfile, tmpfile, logfile, pc, call,
                   loc, data, fd, created, logged, later, saved, persisted, nsnap, boots,
                   hist, reused, clock, logmeta, backups, second>>

\* do_PUT, lines 155-156: update_task has returned True; the task is asked
\* for again with get_task, and what that returns is the body of the 200.
PutAnswer(t) ==
    /\ pc[t] = "ret"
    /\ call[t].op = "update" /\ result[t] = RetBool(TRUE)
    /\ lock = NoThread
    /\ result' = [result EXCEPT ![t] =
                    Http(200, IF call[t].task_id \in DOMAIN tasks
                              THEN Body("task", to_dict(tasks[call[t].task_id]))
                              ELSE NullBody)]
    /\ UNCHANGED <<tasks, next_id, lock, loglock, snapfile, tmpfile, logfile, pc, call,
                   loc, data, fd, created, logged, later, saved, persisted, nsnap, boots,
                   hist, reused, clock, logmeta, backups, second>>

\* The answer is on its way and the request has ended.
HttpReturn(t) ==
    /\ result[t].kind = "http"
    /\ Return(t)

HttpStep(t) ==
    \/ MutationStep(t)
    \/ ListTasks(t)
    \/ PostWithoutBody(t)
    \/ Answer(t)
    \/ PutAnswer(t)
    \/ HttpReturn(t)

\* Concurrent HTTP requests.
NextHttp == \E t \in Threads : HttpStep(t)

SpecHttp == Init /\ [][NextHttp]_vars

\* Concurrent HTTP requests on a server whose disk may refuse the snapshot
\* and whose audit log may be out of reach.
NextHttpFail ==
    \/ \E t \in Threads : HttpStep(t)
    \/ \E t \in Threads : SaveFails(t)
    \/ \E t \in Threads : LogFails(t)

SpecHttpFail == Init /\ [][NextHttpFail]_vars

\* ------------------------------------------------------------ fairness
\* get_logs on the log this run has written: every line of it is the JSON
\* of a record.
GetRunLogs(t, limit) ==
    /\ Begin(t, [op |-> "get_logs", task_id |-> 0, title |-> NoneVal,
                 priority |-> NoneVal, limit |-> limit])
    /\ result' = [result EXCEPT ![t] =
                    RetList(tail(LogFile([i \in 1..Len(logfile) |-> JsonLine(logfile[i])]),
                                 limit))]
    /\ pc' = [pc EXCEPT ![t] = "ret"]
    /\ UNCHANGED <<tasks, next_id, lock, loglock, snapfile, tmpfile, logfile, loc, data,
                   fd, created, later, persisted, nsnap, boots, hist, reused, clock,
                   logmeta, backups, second>>

FairStep(t) ==
    \/ Step(t)
    \/ \E limit \in 1..MaxLimit : GetRunLogs(t, limit)

NextFair == \E t \in Threads : FairStep(t)

\* Every request thread is scheduled again and again: a thread that can take
\* a step from some point on takes one.
FairSpec == Init /\ [][NextFair]_vars /\ \A t \in Threads : WF_vars(FairStep(t))

\* ------------------------------------------------------------ log writes
\* ActionLogger.log step by step.  Here the log file is the sequence of the
\* pieces written to it: the text of a line may reach the file in two
\* pieces, the second of which ends with the newline.
Piece(t, rec, part) == [by |-> t, rec |-> rec, part |-> part]

LogLockIgnored == TRUE

\* "with self._lock" (action_log.py line 52) is entered when no thread is
\* inside it.
LogLockFree == loglock = NoThread

\* log, lines 42-50: a caller hands over action, task ID and status, and the
\* line is built.
LogCall(t, action, task_id, status) ==
    /\ Begin(t, [NoCall EXCEPT !.op = action, !.task_id = task_id])
    /\ loc' = [loc EXCEPT ![t] = [NoLoc EXCEPT !.task_id = task_id, !.status = status]]
    /\ pc' = [pc EXCEPT ![t] = "log_lock"]
    /\ UNCHANGED <<tasks, next_id, lock, loglock, snapfile, tmpfile, logfile, data, fd,
                   result, created, later, persisted, nsnap, boots, hist, reused, clock,
                   logmeta, backups, second>>

\* log, lines 52-55: the lock is taken, the directory made and the file
\* opened for appending.
LogAcquire(t) ==
    /\ pc[t] = "log_lock"
    /\ LogLockFree
    /\ loglock' = t
    /\ pc' = [pc EXCEPT ![t] = "log_head"]
    /\ UNCHANGED <<tasks, next_id, lock, snapfile, tmpfile, logfile, call, loc, data, fd,
                   result, created, logged, later, saved, persisted, nsnap, boots, hist,
                   reused, clock, logmeta, backups, second>>

\* log, line 56: f.write(line + "\n"); a first piece of the text reaches the
\* end of the file.
LogWriteHead(t) ==
    /\ pc[t] = "log_head"
    /\ logfile' = Append(logfile,
                         Piece(t, ActionRecord(call[t].op, loc[t].task_id, loc[t].status), 1))
    /\ pc' = [pc EXCEPT ![t] = "log_tail"]
    /\ UNCHANGED <<tasks, next_id, lock, loglock, snapfile, tmpfile, call, loc, data, fd,
                   result, created, logged, later, saved, persisted, nsnap, boots, hist,
                   reused, clock, logmeta, backups, second>>

\* log, lines 55-56 and 52: the file is closed, which writes the rest of the
\* text with its newline, and the lock is released; log returns the record.
LogWriteTail(t) ==
    /\ pc[t] = "log_tail"
    /\ logfile' = Append(logfile,
                         Piece(t, ActionRecord(call[t].op, loc[t].task_id, loc[t].status), 2))
    /\ loglock' = IF loglock = t THEN NoThread ELSE loglock
    /\ result' = [result EXCEPT ![t] =
                    [kind |-> "record",
                     val |-> <<ActionRecord(call[t].op, loc[t].task_id, loc[t].status)>>]]
    /\ pc' = [pc EXCEPT ![t] = "ret"]
    /\ UNCHANGED <<tasks, next_id, lock, snapfile, tmpfile, call, loc, data, fd,
                   created, logged, later, saved, persisted, nsnap, boots, hist,
                   reused, clock, logmeta, backups, second>>

LogWriteStep(t) ==
    \/ \E action \in {"create", "update", "complete", "delete"}, id \in TaskIds,
          status \in {"success", "not_found"} : LogCall(t, action, id, status)
    \/ LogAcquire(t)
    \/ LogWriteHead(t)
    \/ LogWriteTail(t)
    \/ Return(t)

\* Concurrent calls of log on the one ActionLogger of the server.
NextLogWrite == \E t \in Threads : LogWriteStep(t)

SpecLogWrite == Init /\ [][NextLogWrite]_vars

\* C18: the records sit in the log file in chronological order: their
\* timestamps never decrease in file order, and two success records are in
\* the order in which their mutations were committed under the engine lock.
C18_LogInChronologicalOrder ==
    \A i, j \in 1..Len(logmeta) :
        i < j => /\ logmeta[i].ts <= logmeta[j].ts
                 /\ (logfile[i].status = "success" /\ logfile[j].status = "success")
                    => logmeta[i].commit < logmeta[j].commit

\* C19: when the mutation is in memory and on disk, a failure of the append
\* to the log does not fail the operation: create_task goes on to return the
\* created task, update_task, complete_task and delete_task return True.
C19_LogFailureDoesNotFailCaller ==
    [][\A t \in Threads :
          (/\ pc[t] = "log_write" /\ pc'[t] # "log_write"
           /\ loc[t].status = "success" /\ saved[t]
           /\ logfile' = logfile)
          => IF call[t].op = "create"
             THEN pc'[t] = "create_ret" /\ result'[t] = NoResult
             ELSE pc'[t] = "ret" /\ result'[t] = RetBool(TRUE)]_vars

\* C20: get_logs(n) with n >= 1 returns, in file order, the last min(n, k)
\* of the k records the lines of the log parse to, whatever blank and
\* unparsable lines lie between them, and nothing when the file is missing.
C20_TailReturnsLastParsed ==
    \A t \in Threads :
        (pc[t] = "ret" /\ call[t].op = "get_logs" /\ call[t].limit >= 1)
        => LET parsed == ParsedRecords(logfile.lines)
               n == IF call[t].limit <= Len(parsed) THEN call[t].limit ELSE Len(parsed)
           IN  /\ result[t].kind = "list"
               /\ Len(result[t].val) = n
               /\ \A i \in 1..n : result[t].val[i] = parsed[Len(parsed) - n + i]
               /\ ~logfile.exists => result[t].val = <<>>

\* C21: get_logs(n) with n <= 0 returns what get_logs(1) returns: on a log
\* whose lines include a parseable record, a list that is not empty.
C21_LimitBelowOneIsOne ==
    \A t \in Threads :
        (pc[t] = "ret" /\ call[t].op = "get_logs" /\ call[t].limit <= 0)
        => result[t] = RetList(tail(logfile, 1))

\* C22: a backup of a snapshot file that is there leaves, under the path it
\* returns, a file in the backups directory with the content the snapshot
\* file has when it is copied, and changes neither the snapshot file nor the
\* store; a backup of a missing snapshot file ends with FileNotFoundError
\* and makes no file and no directory.
C22_BackupCopiesSnapshot ==
    [][\A t \in Threads :
          /\ (Starts(t, "backup") /\ snapfile.st = "absent")
             => /\ result'[t] = Raised("FileNotFoundError")
                /\ UNCHANGED <<backups, snapfile, tasks, next_id>>
          /\ (Starts(t, "backup") /\ snapfile.st # "absent")
             => /\ pc'[t] = "backup_copy"
                /\ UNCHANGED <<snapfile, tasks, next_id>>
          /\ (pc[t] = "backup_copy" /\ pc'[t] # "backup_copy")
             => /\ result'[t].kind = "path"
                /\ backups'.dir
                /\ result'[t].val[1] \in DOMAIN backups'.files
                /\ backups'.files[result'[t].val[1]] = snapfile
                /\ UNCHANGED <<snapfile, tasks, next_id>>]_vars

\* A create has replaced the snapshot file, and a backup made after that
\* has returned the path of a copy of the new content.
C22_Witness ==
    \E t \in Threads :
        /\ pc[t] = "ret" /\ call[t].op = "backup" /\ result[t].kind = "path"
        /\ snapfile.st = "complete" /\ snapfile # OldSnapshot
        /\ backups.files[result[t].val[1]] = snapfile

\* C23: a backup that succeeds writes to a new path: not one a backup
\* before it has returned, whose file it would overwrite.
C23_BackupPathIsNew ==
    [][\A t \in Threads :
          (pc[t] = "backup_copy" /\ pc'[t] # "backup_copy")
          => result'[t].val[1] \notin DOMAIN backups.files]_vars

\* The handler of thread t sends its answer in this step.
Answers(t) == result[t].kind # "http" /\ result'[t].kind = "http"

\* C24: a PUT of a task that is there, with a valid title and a valid
\* priority, is answered 200 with a task whose title and priority are the
\* ones sent (trimmed), whatever other requests do to the task meanwhile; a
\* complete or delete of a missing ID is answered 404; a validation failure
\* is answered 400.
C24_PutAnswersWhatWasSent ==
    [][\A t \in Threads :
          Answers(t)
          => /\ (/\ call[t].op = "update" /\ result[t] = RetBool(TRUE)
                 /\ call[t].title.kind = "str" /\ call[t].priority.kind = "str")
                => /\ result'[t].val[1] = 200
                   /\ result'[t].val[2].kind = "task"
                   /\ result'[t].val[2].v.id = call[t].task_id
                   /\ result'[t].val[2].v.title = strip(call[t].title.s)
                   /\ result'[t].val[2].v.priority = strip(call[t].priority.s)
             /\ (call[t].op \in {"complete", "delete"} /\ result[t] = RetBool(FALSE))
                => result'[t] = Http(404, NoBody)
             /\ (call[t].op \in {"create", "update"} /\ result[t] = Raised("ValueError"))
                => result'[t].val[1] = 400]_vars

\* C25: a success record is appended only by a call whose save has replaced
\* the snapshot file before: the calls whose save raised have logged nothing.
C25_PersistBeforeSuccessRecord ==
    /\ [](\A t \in Threads :
            \A i \in 1..Len(logged[t]) : logged[t][i].status = "success" => saved[t])
    /\ [][\A t \in Threads :
            (Len(logfile') > Len(logfile) /\ logged'[t] # logged[t]
             /\ logfile'[Len(logfile')].status = "success")
            => /\ saved[t]
               /\ call[t].op \in {"create", "update", "complete", "delete"}
               /\ logfile'[Len(logfile')] =
                      ActionRecord(call[t].op, loc[t].task_id, "success")]_vars

\* A create has replaced the snapshot file and then appended its success
\* record, and the save of another create has raised without a record.
C25_Witness ==
    \E t, u \in Threads :
        /\ pc[t] = "ret" /\ saved[t]
        /\ logged[t] = <<ActionRecord("create", loc[t].task_id, "success")>>
        /\ logfile = logged[t]
        /\ pc[u] = "ret" /\ result[u].kind \in {"UnicodeEncodeError", "FileNotFoundError"}
        /\ logged[u] = <<>>

\* C26: a caller inside ActionLogger.log, or in the part of save that writes
\* and replaces the file, does not hold the lock of the store; this includes
\* the not-found branches of update, complete and delete.
C26_NoFileWorkUnderTheLock ==
    \A t \in Threads :
        pc[t] \in {"save_open", "save_write", "save_close", "save_replace",
                   "log", "log_write"}
        => lock # t

\* Thread t is inside a call: it has started and has not returned or raised.
InCall(t) == pc[t] \notin {"new", "ret", "done"}

C28_CreateReturnsWhatItStored ==
    [][\A t \in Threads :
          (pc[t] = "create_ret" /\ pc'[t] = "ret")
          => result'[t] = RetTask(to_dict(Task(loc[t].task_id,
                                               strip(call[t].title.s),
                                               strip(call[t].priority.s),
                                               FALSE)))]_vars

\* The save of the call of t has raised: the call committed its mutation
\* and ended without having replaced the snapshot file.
SaveFailed(t) ==
    /\ pc[t] = "ret"
    /\ call[t].op \in {"create", "update", "complete", "delete"}
    /\ loc[t].status = "success"
    /\ ~saved[t]

\* The collection holds what the call of t did to its task.
InMemory(t) ==
    LET id == loc[t].task_id
    IN  /\ call[t].op = "delete" => id \notin DOMAIN tasks
        /\ call[t].op # "delete" => id \in DOMAIN tasks
        /\ call[t].op = "create" =>
              /\ tasks[id].title = loc[t].title.s
              /\ tasks[id].priority = loc[t].priority.s
        /\ call[t].op = "update" =>
              /\ loc[t].title.kind = "str" => tasks[id].title = loc[t].title.s
              /\ loc[t].priority.kind = "str" => tasks[id].priority = loc[t].priority.s
        /\ call[t].op = "complete" => tasks[id].is_done

\* C29: when the save of a create, update, complete or delete raises, the
\* step that raises leaves the collection and the snapshot file as they
\* are, the call ends with the exception and not with a result, it has
\* appended no record, and its mutation stays in the collection.
C29_FailedSaveKeepsMutation ==
    /\ [](\A t \in Threads :
            SaveFailed(t)
            => /\ result[t].kind \in {"OSError", "UnicodeEncodeError", "FileNotFoundError"}
               /\ logged[t] = <<>>
               /\ ~later[t] => InMemory(t))
    /\ [][\A t \in Threads :
            (pc[t] # "ret" /\ SaveFailed(t)')
            => UNCHANGED <<tasks, next_id, snapfile, logfile>>]_vars

\* C30: a create, update, complete or delete request whose save or whose
\* append to the log raised is answered with a status from 500 to 599.
C30_FailuresAnswered5xx ==
    [][\A t \in Threads :
          (/\ Answers(t)
           /\ call[t].op \in {"create", "update", "complete", "delete"}
           /\ result[t].kind \in {"OSError", "UnicodeEncodeError", "FileNotFoundError"})
          => result'[t].val[1] \in 500..599]_vars

\* C31: a create, update, complete or delete that has returned a task or
\* True has appended one record, with its action, its task ID and status
\* success; one that has returned False has appended one record with status
\* not_found; one that has ended with ValueError has appended none.  The
\* log changes only by the record a call appends.
C31_OneRecordPerOutcome ==
    /\ [](\A t \in Threads :
            (pc[t] = "ret" /\ call[t].op \in {"create", "update", "complete", "delete"})
            => /\ result[t].kind = "task"
                  => logged[t] = <<ActionRecord("create", result[t].val[1].id, "success")>>
               /\ result[t] = RetBool(TRUE)
                  => logged[t] = <<ActionRecord(call[t].op, call[t].task_id, "success")>>
               /\ result[t] = RetBool(FALSE)
                  => logged[t] = <<ActionRecord(call[t].op, call[t].task_id, "not_found")>>
               /\ result[t] = Raised("ValueError") => logged[t] = <<>>)
    /\ [][logfile' # logfile
          => \E t \in Threads :
                /\ Len(logged'[t]) = Len(logged[t]) + 1
                /\ logfile' = Append(logfile, logged'[t][Len(logged'[t])])
                /\ \A u \in Threads \ {t} : logged'[u] = logged[u]]_vars

\* A create has returned its task, an update of a missing ID has returned
\* False, and the log holds the success record and the not_found record.
C31_Witness ==
    \E t, u \in Threads :
        /\ pc[t] = "ret" /\ call[t].op = "create" /\ result[t].kind = "task"
        /\ pc[u] = "ret" /\ call[u].op = "update" /\ result[u] = RetBool(FALSE)
        /\ Len(logfile) = 2
        /\ logged[t] # <<>> /\ logged[u] # <<>>

\* C32: the log only grows at its end, and the pieces of one line lie next
\* to each other: every first piece is followed by the second piece of the
\* same call, or is the last piece written by a call still inside log.
C32_LogAppendOnlyWholeLines ==
    /\ [][/\ Len(logfile') >= Len(logfile)
          /\ SubSeq(logfile', 1, Len(logfile)) = logfile]_vars
    /\ [](\A i \in 1..Len(logfile) :
            /\ logfile[i].part = 1
               => IF i < Len(logfile)
                  THEN logfile[i + 1] = [logfile[i] EXCEPT !.part = 2]
                  ELSE pc[logfile[i].by] = "log_tail" /\ loglock = logfile[i].by
            /\ logfile[i].part = 2
               => i > 1 /\ logfile[i - 1] = [logfile[i] EXCEPT !.part = 1])

\* One call has written its whole line while the other, which had its line
\* built before, waited for the lock and is writing now.
C32_Witness ==
    \E t, u \in Threads :
        /\ pc[t] = "ret" /\ pc[u] = "log_tail" /\ loglock = u
        /\ Len(logfile) = 3
        /\ logfile[1].by = t /\ logfile[2].by = t /\ logfile[3].by = u

\* C33: every file in the backups directory holds one whole snapshot: the
\* text one save has written from its first character to its last.
C33_BackupIsOneGeneration ==
    \A n \in DOMAIN backups.files : backups.files[n].st = "complete"

\* C34: every task in the collection of a store that started empty has a
\* title that is not empty and has no whitespace at its ends, and a
\* priority that is low, normal or high.
C34_StoredTasksAreValid ==
    \A id \in DOMAIN tasks :
        /\ tasks[id].title # <<>>
        /\ strip(tasks[id].title) = tasks[id].title
        /\ tasks[id].priority \in ALLOWED_PRIORITIES

\* An update with a good title and a bad priority has ended with ValueError
\* after it had stored the trimmed title in the task a create had stored.
C34_Witness ==
    \E t \in Threads :
        /\ pc[t] = "ret" /\ call[t].op = "update" /\ result[t] = Raised("ValueError")
        /\ call[t].title = Str(<<" ", "b">>) /\ call[t].priority = Str(<<"urgent">>)
        /\ call[t].task_id \in DOMAIN tasks
        /\ tasks[call[t].task_id].title = <<"b">>
        /\ snapfile # OldSnapshot

====
